---- MODULE Spec2Model ----
(***************************************************************************)
(* State-machine model of the cache / rate-limit layer, of the two          *)
(* time-series stores, of the candle normalizer and of the indicator       *)
(* functions of read_data.py.                                              *)
(*                                                                         *)
(* time.time() returns a float; the model counts time in ticks of          *)
(* 1/TicksPerSecond seconds, so that the truncation int(...) of the        *)
(* retry-after hint acts on a fractional number of seconds.                *)
(***************************************************************************)
EXTENDS Integers, Sequences, FiniteSets, TLC

VARIABLES
    clock,              \* the wall clock read by time.time(), in ticks
    elapses,            \* how many times the clock has advanced
    rate_limit_bucket,  \* _rate_limit_bucket: a dict, key -> [window_start, count]
    rlPc,               \* per request thread: "idle" | "waiting" (clock read, lock not taken)
    rlKey,              \* per request thread: the key computed at line 214
    rlNow,              \* per request thread: the value of `now` read at line 215
    rlTraffic,          \* the <<route, request>> shapes the clients of this run send
    rlAdmitted,         \* history: requests admitted per key since the bucket's window began
    rlLast,             \* history: the request that last left _enforce_rate_limit
    cache_store,        \* _cache_store: a dict, key -> [ts, value]
    cPc,                \* per _cache_get thread: "idle" | "waiting" (clock read, lock not taken)
    cKey,               \* per _cache_get thread: the key looked up
    cNow,               \* per _cache_get thread: the value of `now` read at line 88
    cRet,               \* per _cache_get thread: the return statement last taken and its value
    cLastSet,           \* history: per key, the entry written by the latest _cache_set
    fs,                 \* the files of the data directory: [paths, inodes]
    today,              \* date.today(), a day number
    feedMode,           \* which feeds nepse.getPriceVolume() may deliver in this run
    docLast,            \* history: the snapshot that last completed
    upstream,           \* the version of the price history the upstream API serves
    indStored,          \* history: per (security id, name set), the last computed result
    indCalls,           \* how many _get_cached_indicators calls have run
    indLast,            \* history: the _get_cached_indicators call that last returned
    fPc,                \* per ohlc_snapshot request: the file-system call it is at
    fHandle,            \* per ohlc_snapshot request: the inode of its open file, or 0
    fOff,               \* per ohlc_snapshot request: the offset of its open file
    fPayload,           \* per ohlc_snapshot request: the payload it is about to save
    fLoad,              \* history: what the reader's last _load_ohlc_history saw
    daily_ohlc,         \* the rows of the table daily_ohlc
    idSeq,              \* the last value given by the sequence of daily_ohlc.id
    dbTime,             \* the database clock, in slots
    dbLatest,           \* history: per (symbol, trading_date), the row last proposed
    dbLast,             \* history: the batch that was last executed
    dbRead,             \* history: the get_ohlc_history request that was last answered
    normIn,             \* the raw row given to _normalize_candle_row
    normUsed,           \* history: the raw value the normalizer chose for each field
    normOut,            \* what _normalize_candle_row returned
    timeIn,             \* the value given to _parse_time_to_unix_seconds
    timeOut,            \* what _parse_time_to_unix_seconds returned
    taIn,               \* the call of an indicator function: its name and arguments
    taOut,              \* what the indicator function returned
    reqCalls,           \* how many /api/ta/indicators requests have been handled
    reqLast,            \* history: the /api/ta/indicators request last answered
    histIn,             \* the security id and the stored rows given to _get_or_fetch_ta_history
    histOut             \* what _get_or_fetch_ta_history returned

rlVars == <<rate_limit_bucket, rlPc, rlKey, rlNow, rlTraffic, rlAdmitted, rlLast>>
cacheVars == <<cache_store, cPc, cKey, cNow, cRet, cLastSet>>
timeVars == <<clock, elapses>>
docVars == <<fs, today, feedMode, docLast>>
indVars == <<upstream, indStored, indCalls, indLast>>
fileVars == <<fPc, fHandle, fOff, fPayload, fLoad>>
dbVars == <<daily_ohlc, idSeq, dbTime, dbLatest, dbLast, dbRead>>
normVars == <<normIn, normUsed, normOut, timeIn, timeOut>>
taVars == <<taIn, taOut>>
reqVars == <<reqCalls, reqLast>>
histVars == <<histIn, histOut>>
sideVars == <<reqVars, histVars>>
pureVars == <<normVars, taVars, sideVars>>
vars == <<timeVars, rlVars, cacheVars, docVars, indVars, fileVars, dbVars, pureVars>>

---------------------------------------------------------------------------
(* Bounds of the model *)
TicksPerSecond == 2
MaxElapses == 3
MaxOver == 2
MaxDay == 3
MaxIndLen == 2
MaxCalls == 2
SlotsPerDay == 2
MaxDbTime == 3
MaxBatch == 2
MaxId == 4

(* Program constants *)
RATE_LIMIT_MAX_REQUESTS == 30
RATE_LIMIT_WINDOW_SECONDS == 60
CACHE_TTL_SECONDS == 900
DEFAULT_LIMIT == 90
DEFAULT_RANGE_DAYS == 90

\* an optional value: <<>> for Python's None, <<v>> for the value v
None == <<>>
Some(v) == <<v>>

\* F(v, w) and v, with v and w evaluated once
With2(v, w, F(_, _)) == CHOOSE r \in { F(x, y) : x \in {v}, y \in {w} } : TRUE
Value(v) == CHOOSE x \in {v} : TRUE

Max(a, b) == IF a >= b THEN a ELSE b
Min(a, b) == IF a <= b THEN a ELSE b

\* a Python dict: a function on the keys present
EmptyDict == <<>>
DictGet(d, k) == IF k \in DOMAIN d THEN Some(d[k]) ELSE None
DictSet(d, k, v) == [x \in DOMAIN d \cup {k} |-> IF x = k THEN v ELSE d[x]]
DictPop(d, k) == [x \in DOMAIN d \ {k} |-> d[x]]

\* int(x) for x = n / d with d > 0: truncation toward zero
PyInt(n, d) == IF n >= 0 THEN n \div d ELSE -((-n) \div d)

---------------------------------------------------------------------------
(* Wall clock *)

ElapseClock(steps) ==
    /\ elapses < MaxElapses
    /\ \E d \in steps : clock' = clock + d
    /\ elapses' = elapses + 1

---------------------------------------------------------------------------
(* Rate limiter: _enforce_rate_limit *)

RLThreads == {"t1", "t2"}
Routes == {"ta_history", "ta_indicators"}
\* a request as _enforce_rate_limit sees it: the comma-separated entries of the
\* X-Forwarded-For header (<<>> when the header is absent) and request.remote_addr
\* ("" when it is None)
Requests ==
    { [xff |-> <<>>,                     remote_addr |-> "10.0.0.1"],
      [xff |-> <<"1.1.1.1">>,            remote_addr |-> "10.0.0.1"],
      [xff |-> <<"1.1.1.1", "2.2.2.2">>, remote_addr |-> "10.0.0.2"],
      [xff |-> <<>>,                     remote_addr |-> ""] }

\* lines 210-212: the header when present, else remote_addr, else "unknown";
\* of a comma-separated header the first entry
ClientIp(req) ==
    IF req.xff # <<>> THEN req.xff[1]
    ELSE IF req.remote_addr # "" THEN req.remote_addr
    ELSE "unknown"

\* a key that leaves the client out
RateLimitKey_RouteOnly(route_name, req) == route_name \o ":"

\* line 214: f"{route_name}:{client_ip}"
RateLimitKey(route_name, req) == route_name \o ":" \o ClientIp(req)

RLKeys == { RateLimitKey(r, q) : r \in Routes, q \in Requests }

WindowTicks == RATE_LIMIT_WINDOW_SECONDS * TicksPerSecond

\* the window test with > for >=
WindowElapsed_Strict(bucket, now) ==
    \/ bucket = None
    \/ now - bucket[1].window_start > RATE_LIMIT_WINDOW_SECONDS * TicksPerSecond

\* line 219: not bucket or now - bucket["window_start"] >= RATE_LIMIT_WINDOW_SECONDS
\* (bucket: the optional result of _rate_limit_bucket.get(key))
WindowElapsed(bucket, now) ==
    \/ bucket = None
    \/ now - bucket[1].window_start >= WindowTicks

\* the limit test with >= for >
OverLimit_AtLeast(count) == count >= RATE_LIMIT_MAX_REQUESTS

\* line 224
OverLimit(count) == count > RATE_LIMIT_MAX_REQUESTS

\* line 225: max(1, int(RATE_LIMIT_WINDOW_SECONDS - (now - bucket["window_start"])))
RetryAfter(bucket, now) ==
    Max(1, PyInt(WindowTicks - (now - bucket[1].window_start), TicksPerSecond))

\* lines 218-228: the bucket after the request
BucketAfter(bucket, now) ==
    IF WindowElapsed(bucket, now)
    THEN [window_start |-> now, count |-> 1]
    ELSE [bucket[1] EXCEPT !.count = @ + 1]

\* lines 218-228: what the request is answered
OutcomeOf(bucket, now) ==
    IF WindowElapsed(bucket, now) THEN [admit |-> TRUE, retryAfter |-> 0]
    ELSE IF OverLimit(bucket[1].count + 1)
         THEN [admit |-> FALSE, retryAfter |-> RetryAfter(bucket, now)]
         ELSE [admit |-> TRUE, retryAfter |-> 0]

InFlight(k) == Cardinality({ t \in RLThreads : rlPc[t] = "waiting" /\ rlKey[t] = k })

\* lines 210-215: compute the key and read the clock, before the lock is taken
RLReadClock(t) ==
    /\ rlPc[t] = "idle"
    /\ \E tr \in rlTraffic :
         LET k == RateLimitKey(tr[1], tr[2]) IN
           /\ IF k \in DOMAIN rate_limit_bucket
              THEN rate_limit_bucket[k].count + InFlight(k)
                      < RATE_LIMIT_MAX_REQUESTS + MaxOver
              ELSE TRUE
           /\ rlKey' = [rlKey EXCEPT ![t] = k]
    /\ rlNow' = [rlNow EXCEPT ![t] = clock]
    /\ rlPc' = [rlPc EXCEPT ![t] = "waiting"]
    /\ UNCHANGED <<pureVars, dbVars, fileVars, indVars, timeVars, rate_limit_bucket, rlTraffic, rlAdmitted, rlLast, cacheVars, docVars>>

\* lines 217-228: the critical section under _rate_limit_lock
RLEnforce(t) ==
    /\ rlPc[t] = "waiting"
    /\ LET k == rlKey[t]
           pre == DictGet(rate_limit_bucket, k)
           post == BucketAfter(pre, rlNow[t])
           out == OutcomeOf(pre, rlNow[t])
       IN /\ rate_limit_bucket' = DictSet(rate_limit_bucket, k, post)
          /\ rlAdmitted' = [rlAdmitted EXCEPT ![k] =
                IF WindowElapsed(pre, rlNow[t]) THEN 1
                ELSE IF out.admit THEN @ + 1 ELSE @]
          /\ rlLast' = Some([key |-> k, now |-> rlNow[t], pre |-> pre,
                             post |-> post, admit |-> out.admit,
                             retryAfter |-> out.retryAfter])
    /\ rlPc' = [rlPc EXCEPT ![t] = "idle"]
    /\ rlKey' = [rlKey EXCEPT ![t] = ""]
    /\ rlNow' = [rlNow EXCEPT ![t] = 0]
    /\ UNCHANGED <<pureVars, dbVars, fileVars, indVars, timeVars, rlTraffic, cacheVars, docVars>>

RLElapse ==
    /\ ElapseClock({1, WindowTicks - 1, WindowTicks})
    /\ UNCHANGED <<pureVars, dbVars, fileVars, indVars, rlVars, cacheVars, docVars>>

RLInit ==
    /\ rate_limit_bucket = EmptyDict
    /\ rlPc = [t \in RLThreads |-> "idle"]
    /\ rlKey = [t \in RLThreads |-> ""]
    /\ rlNow = [t \in RLThreads |-> 0]
    /\ rlAdmitted = [k \in RLKeys |-> 0]
    /\ rlLast = None

RLIdle == RLInit /\ rlTraffic = {}

\* two sources of requests: one client on the two routes, or two clients on
\* one route
KeyPairs ==
    LET q1 == [xff |-> <<>>, remote_addr |-> "10.0.0.1"]
        q2 == [xff |-> <<"1.1.1.1", "2.2.2.2">>, remote_addr |-> "10.0.0.2"]
    IN { {<<"ta_indicators", q1>>, <<"ta_history", q1>>},
         {<<"ta_indicators", q1>>, <<"ta_indicators", q2>>} }

\* the buckets at the start of a run with several sources: none yet, or for each
\* source a bucket the requests of the window that began at 0 have filled to one
\* below the limit
RLSeveralSources ==
    /\ rlTraffic \in KeyPairs
    /\ rlPc = [t \in RLThreads |-> "idle"]
    /\ rlKey = [t \in RLThreads |-> ""]
    /\ rlNow = [t \in RLThreads |-> 0]
    /\ rlLast = None
    /\ \E filled \in BOOLEAN :
         LET keys == IF filled THEN { RateLimitKey(tr[1], tr[2]) : tr \in rlTraffic }
                     ELSE {}
         IN /\ rate_limit_bucket =
                  [k \in keys |-> [window_start |-> 0,
                                   count |-> RATE_LIMIT_MAX_REQUESTS - 1]]
            /\ rlAdmitted = [k \in RLKeys |->
                               IF k \in keys THEN RATE_LIMIT_MAX_REQUESTS - 1 ELSE 0]

\* one client on one route
RLSingleSource == rlTraffic \in { {<<"ta_indicators", q>>} : q \in Requests }

---------------------------------------------------------------------------
(* Cache: _cache_get, _cache_set *)

CThreads == {"g1", "g2"}
CacheKeys == {<<"ta_history", 1>>, <<"ta_history", 2>>}
CacheValues == {"v1", "v2"}

TtlTicks == CACHE_TTL_SECONDS * TicksPerSecond

\* a lookup that keeps an entry whose age equals the TTL
CacheExpired_Strict(entry, now) == now - entry.ts > TtlTicks

\* line 93: now - entry["ts"] >= CACHE_TTL_SECONDS
CacheExpired(entry, now) == now - entry.ts >= TtlTicks

\* lines 90-96: the store after the lookup of key with the clock value now
StoreAfterGet(store, key, now) ==
    IF key \in DOMAIN store /\ CacheExpired(store[key], now)
    THEN DictPop(store, key)
    ELSE store

\* lines 90-96: the return statement taken and the value returned
ResultOfGet(store, key, now) ==
    IF key \notin DOMAIN store THEN [via |-> "absent", value |-> None]
    ELSE IF CacheExpired(store[key], now) THEN [via |-> "expired", value |-> None]
    ELSE [via |-> "hit", value |-> Some(store[key].value)]

\* line 101: the store after _cache_set(key, value) at the clock value ts
StoreAfterSet(store, key, value, ts) == DictSet(store, key, [ts |-> ts, value |-> value])

\* the locals of a thread that is not inside a call
NoKey == <<"", "">>
NoReturn == [via |-> "none", value |-> None]

\* line 88: the clock is read before _cache_lock is taken
CacheGetReadClock(t) ==
    /\ cPc[t] = "idle"
    /\ \E k \in CacheKeys : cKey' = [cKey EXCEPT ![t] = k]
    /\ cNow' = [cNow EXCEPT ![t] = clock]
    /\ cPc' = [cPc EXCEPT ![t] = "waiting"]
    /\ cRet' = [cRet EXCEPT ![t] = NoReturn]
    /\ UNCHANGED <<pureVars, dbVars, fileVars, indVars, timeVars, rlVars, docVars, cache_store, cLastSet>>

\* lines 89-96: the critical section under _cache_lock
CacheGetLocked(t) ==
    /\ cPc[t] = "waiting"
    /\ cache_store' = StoreAfterGet(cache_store, cKey[t], cNow[t])
    /\ cRet' = [cRet EXCEPT ![t] = ResultOfGet(cache_store, cKey[t], cNow[t])]
    /\ cPc' = [cPc EXCEPT ![t] = "idle"]
    /\ cKey' = [cKey EXCEPT ![t] = NoKey]
    /\ cNow' = [cNow EXCEPT ![t] = 0]
    /\ UNCHANGED <<pureVars, dbVars, fileVars, indVars, timeVars, rlVars, docVars, cLastSet>>

\* lines 99-101: _cache_set reads the clock inside the lock
CacheSet ==
    /\ \E k \in CacheKeys, v \in CacheValues :
         /\ cache_store' = StoreAfterSet(cache_store, k, v, clock)
         /\ cLastSet' = DictSet(cLastSet, k, [ts |-> clock, value |-> v])
    /\ UNCHANGED <<pureVars, dbVars, fileVars, indVars, timeVars, rlVars, docVars, cPc, cKey, cNow, cRet>>

CacheElapse ==
    /\ ElapseClock({1, TtlTicks - 1})
    /\ UNCHANGED <<pureVars, dbVars, fileVars, indVars, rlVars, cacheVars, docVars>>

CacheInit ==
    /\ cache_store = EmptyDict
    /\ cPc = [t \in CThreads |-> "idle"]
    /\ cKey = [t \in CThreads |-> NoKey]
    /\ cNow = [t \in CThreads |-> 0]
    /\ cRet = [t \in CThreads |-> NoReturn]
    /\ cLastSet = EmptyDict

---------------------------------------------------------------------------
(* Indicator cache: _get_cached_indicators, _get_or_fetch_ta_history *)

SecurityIds == {1, 2}
PriceVersions == {"p0", "p1"}
IndicatorNames == {"bb20", "macd"}

\* the order of Python's string comparison on the indicator names
NameRank(n) ==
    CASE n = "bb20" -> 1 [] n = "ema50" -> 2 [] n = "foo" -> 3 [] n = "macd" -> 4
      [] n = "rsi14" -> 5 [] n = "sma20" -> 6

IndicatorLists == UNION { [1 .. k -> IndicatorNames] : k \in 0 .. MaxIndLen }

Range(q) == { q[i] : i \in 1 .. Len(q) }

RECURSIVE SortedNames(_)
\* sorted(S) of a set of names
SortedNames(S) ==
    IF S = {} THEN <<>>
    ELSE LET least == CHOOSE n \in S : \A m \in S : NameRank(n) <= NameRank(m)
         IN <<least>> \o SortedNames(S \ {least})

\* a key built from the list as it was requested
Normalized_AsGiven(indicators) == indicators

\* line 622: sorted(set(indicators))
Normalized(indicators) == SortedNames(Range(indicators))

\* line 623: f"ta_indicators:{security_id}:{','.join(normalized)}"
IndicatorsKey(security_id, normalized) == <<"ta_indicators", security_id, normalized>>

\* line 437: f"ta_history:{security_id}"
HistoryKey(security_id) == <<"ta_history", security_id>>

\* lines 461-465: the history payload built from the candles the upstream serves
HistoryPayload(security_id, version) == [securityId |-> security_id, candles |-> version]

\* lines 607-616: the names the if/elif chain of _compute_indicator_series knows
KnownIndicators == {"sma20", "ema50", "rsi14", "macd", "bb20"}

\* a chain that ends in an else branch computing a series for any other name
ComputeIndicatorSeries_AnyName(candles, indicator_names) ==
    [n \in Range(indicator_names) |-> [indicator |-> n, from |-> candles]]

\* lines 601-618: one series per requested name the chain knows, computed from
\* the candles; the chain has no else branch, a name it does not know adds
\* nothing to the result and raises nothing
ComputeIndicatorSeries(candles, indicator_names) ==
    [n \in Range(indicator_names) \cap KnownIndicators |->
        [indicator |-> n, from |-> candles]]

\* a history lookup that returns the cached payload whatever its age
GetOrFetchTaHistory_AnyAge(store, security_id, now, fetched) ==
    IF HistoryKey(security_id) \in DOMAIN store
    THEN [store |-> store, payload |-> Some(store[HistoryKey(security_id)].value)]
    ELSE IF fetched = None
    THEN [store |-> store, payload |-> None]
    ELSE [store |-> StoreAfterSet(store, HistoryKey(security_id), fetched[1], now),
          payload |-> fetched]

\* lines 436-468: _get_or_fetch_ta_history on the store, at the clock value now;
\* fetched is the payload built from the rows read at line 443, None when the
\* call raises before it has built one
GetOrFetchTaHistory(store, security_id, now, fetched) ==
    LET got == ResultOfGet(store, HistoryKey(security_id), now)
        kept == StoreAfterGet(store, HistoryKey(security_id), now)
    IN IF got.value # None
       THEN [store |-> kept, payload |-> got.value]
       ELSE IF fetched = None
       THEN [store |-> kept, payload |-> None]
       ELSE [store |-> StoreAfterSet(kept, HistoryKey(security_id), fetched[1], now),
             payload |-> fetched]

\* lines 621-634: _get_cached_indicators on the store, at the clock value now
GetCachedIndicators(store, security_id, indicators, now, fetched) ==
    LET normalized == Normalized(indicators)
        cache_key == IndicatorsKey(security_id, normalized)
        cached == ResultOfGet(store, cache_key, now)
        kept == StoreAfterGet(store, cache_key, now)
    IN IF cached.value # None
       THEN [store |-> kept, key |-> cache_key, hit |-> TRUE, computed |-> FALSE,
             result |-> cached.value]
       ELSE LET history == GetOrFetchTaHistory(kept, security_id, now, fetched)
            IN IF history.payload = None
               THEN [store |-> history.store, key |-> cache_key, hit |-> FALSE,
                     computed |-> FALSE, result |-> None]
               ELSE LET result ==
                          [securityId |-> security_id,
                           series |-> ComputeIndicatorSeries(history.payload[1].candles,
                                                             normalized)]
                    IN [store |-> StoreAfterSet(history.store, cache_key, result, now),
                        key |-> cache_key, hit |-> FALSE, computed |-> TRUE,
                        result |-> Some(result)]

\* one call of _get_cached_indicators; the upstream request answers or raises
\* lines 621-634 as seen by the caller: the cache after the call and what the
\* call returned; the history is built from the rows read or the call raises
IndReturnOf(security_id, indicators, fetched) ==
    \E call \in {GetCachedIndicators(cache_store, security_id, indicators, clock,
                                      fetched)} :
        LET asked == <<security_id, Range(indicators)>> IN
        /\ cache_store' = call.store
        /\ indLast' = Some([security_id |-> security_id,
                            names |-> Range(indicators),
                            key |-> call.key, hit |-> call.hit,
                            computed |-> call.computed, result |-> call.result,
                            at |-> clock,
                            prior |-> IF asked \in DOMAIN indStored
                                      THEN Some(indStored[asked]) ELSE None])
        /\ indStored' = IF call.computed
                        THEN DictSet(indStored, asked,
                                     [key |-> call.key, result |-> call.result,
                                      at |-> clock])
                        ELSE indStored

\* the same, with the history abstracted to the version the upstream serves
IndReturn(security_id, indicators, answers) ==
    IndReturnOf(security_id, indicators,
                IF answers THEN Some(HistoryPayload(security_id, upstream)) ELSE None)

IndCallFrom(lists) ==
    /\ indCalls < MaxCalls
    /\ indCalls' = indCalls + 1
    /\ \E security_id \in SecurityIds, indicators \in lists, answers \in BOOLEAN :
         IndReturn(security_id, indicators, answers)
    /\ UNCHANGED <<pureVars, dbVars, fileVars, timeVars, rlVars, docVars, upstream, cPc, cKey, cNow, cRet, cLastSet>>

IndCall == IndCallFrom(IndicatorLists)

\* the upstream publishes new prices
UpstreamChange ==
    /\ upstream' \in PriceVersions \ {upstream}
    /\ UNCHANGED <<pureVars, dbVars, fileVars, timeVars, rlVars, cacheVars, docVars, indStored, indCalls, indLast>>

IndElapse ==
    /\ ElapseClock({1, TtlTicks - 1})
    /\ UNCHANGED <<pureVars, dbVars, fileVars, rlVars, cacheVars, docVars, indVars>>

IndInit == upstream = "p0" /\ indStored = EmptyDict /\ indCalls = 0 /\ indLast = None

IndIdle == IndInit

---------------------------------------------------------------------------
(* Values read from the upstream feed, and _safe_float *)

\* Python floats: a finite float is its number; the three values that are not
\* finite lie outside the finite range -FloatMax .. FloatMax
FloatMax == 4096
FloatBits == 11
FloatScale == 16
MaxLen == 3
MaxPeriod == 3
PosInf == FloatMax + 1
NegInf == 0 - PosInf
NaN == FloatMax + 2

\* math.isfinite(x)
IsFinite(x) == x >= 0 - FloatMax /\ x <= FloatMax

\* a cell of an upstream row: absent or None, a number, or a string; the number
\* of a cell is 1000 * kilo + num; a float cell can also be nan or inf
RNone == [kind |-> "none", num |-> 0, kilo |-> 0, text |-> ""]
RNum(n) == [kind |-> "num", num |-> n, kilo |-> 0, text |-> ""]
RBig(k, n) == [kind |-> "num", num |-> n, kilo |-> k, text |-> ""]
RStr(x) == [kind |-> "str", num |-> 0, kilo |-> 0, text |-> x]
RNaN == [kind |-> "nan", num |-> 0, kilo |-> 0, text |-> ""]
RInf == [kind |-> "inf", num |-> 0, kilo |-> 0, text |-> ""]

\* str.replace(",", "") on the strings of the model
StripCommas(text) ==
    CASE text = "1,250" -> "1250"
      [] OTHER -> text

\* float(text): the float, or None for ValueError
PyFloat(text) ==
    CASE text = "1250" -> Some(1250)
      [] text = "12" -> Some(12)
      [] text = "nan" -> Some(NaN)
      [] text = "inf" -> Some(PosInf)
      [] text = "-inf" -> Some(NegInf)
      [] OTHER -> None

\* lines 69-75: _safe_float(value) with default None
SafeFloat(cell) ==
    IF cell.kind = "none" \/ (cell.kind = "str" /\ cell.text = "") THEN None
    ELSE IF cell.kind = "num" THEN Some(1000 * cell.kilo + cell.num)
    ELSE IF cell.kind = "nan" THEN Some(NaN)
    ELSE IF cell.kind = "inf" THEN Some(PosInf)
    ELSE PyFloat(StripCommas(cell.text))

\* str.upper() on the symbols of the model
Upper(x) ==
    CASE x = "a" -> "A"
      [] x = "b" -> "B"
      [] OTHER -> x

---------------------------------------------------------------------------
(* Document backend: the JSON file at OHLC_HISTORY_PATH *)

Days == 1 .. MaxDay

\* the rows nepse.getPriceVolume() may deliver
RowLower ==
    [symbol |-> "a", openPrice |-> RNum(10), highPrice |-> RNum(12),
     lowPrice |-> RNum(9), lastTradedPrice |-> RNum(11),
     lastTradedVolume |-> RNone, totalTradeQuantity |-> RNum(5)]

RowStrings ==
    [symbol |-> "A", openPrice |-> RStr("1,250"), highPrice |-> RStr("1,250"),
     lowPrice |-> RStr("12"), lastTradedPrice |-> RStr("12"),
     lastTradedVolume |-> RNum(7), totalTradeQuantity |-> RNum(5)]

RowNoVolume ==
    [symbol |-> "B", openPrice |-> RNum(20), highPrice |-> RNum(20),
     lowPrice |-> RNum(20), lastTradedPrice |-> RNum(20),
     lastTradedVolume |-> RNone, totalTradeQuantity |-> RNone]

RowNoSymbol ==
    [symbol |-> "", openPrice |-> RNum(30), highPrice |-> RNum(30),
     lowPrice |-> RNum(30), lastTradedPrice |-> RNum(30),
     lastTradedVolume |-> RNum(1), totalTradeQuantity |-> RNum(1)]

RowBadPrice ==
    [symbol |-> "b", openPrice |-> RStr("n/a"), highPrice |-> RNum(20),
     lowPrice |-> RNum(20), lastTradedPrice |-> RStr(""),
     lastTradedVolume |-> RNum(1), totalTradeQuantity |-> RNum(1)]

\* the live-market responses a snapshot may receive: empty, single rows, the
\* same symbol twice, two symbols, and rows the handler skips
Feeds ==
    { <<>>, <<RowLower>>, <<RowStrings>>, <<RowNoVolume>>,
      <<RowLower, RowStrings>>, <<RowStrings, RowNoVolume>>,
      <<RowNoVolume, RowLower>>, <<RowNoSymbol, RowBadPrice>>,
      <<RowBadPrice, RowNoVolume>> }

FeedPool(mode) ==
    CASE mode = "any" -> Feeds
      [] mode = "few" -> {<<RowLower>>, <<RowStrings>>}
      [] OTHER -> {}

\* lines 167, 174: {"updatedAt": None, "symbols": {}}
EmptyPayload == [updatedAt |-> None, symbols |-> EmptyDict]

\* lines 1260-1264: the index of the first candle dated today_str, 0 when none
FindDate(candles, today_str) ==
    IF \E i \in 1 .. Len(candles) : candles[i].date = today_str
    THEN CHOOSE i \in 1 .. Len(candles) :
            /\ candles[i].date = today_str
            /\ \A j \in 1 .. i - 1 : candles[j].date # today_str
    ELSE 0

\* line 1268: list.sort(key=date), a stable sort
RECURSIVE SortByDate(_)
SortByDate(candles) ==
    IF Len(candles) <= 1 THEN candles
    ELSE LET x == candles[Len(candles)]
             Insert(head) ==
                LET n == Cardinality({ i \in 1 .. Len(head) : head[i].date <= x.date })
                IN SubSeq(head, 1, n) \o <<x>> \o SubSeq(head, n + 1, Len(head))
         IN Insert(Value(SortByDate(SubSeq(candles, 1, Len(candles) - 1))))

\* an upsert that appends without looking for today's candle
UpsertToday_AppendOnly(candles, new_entry) == SortByDate(Append(candles, new_entry))

\* lines 1259-1268: replace the candle dated as new_entry, else append; then sort
UpsertToday(candles, new_entry) ==
    LET idx == FindDate(candles, new_entry.date)
    IN SortByDate(IF idx # 0 THEN [candles EXCEPT ![idx] = new_entry]
                  ELSE Append(candles, new_entry))

\* lines 1228-1269: one row of the feed merged into payload["symbols"]
MergeRow(symbols, row, today_str) ==
    LET symbol == Upper(row.symbol)
        open_price == SafeFloat(row.openPrice)
        high_price == SafeFloat(row.highPrice)
        low_price == SafeFloat(row.lowPrice)
        close_price == SafeFloat(row.lastTradedPrice)
        volume_value == IF row.lastTradedVolume.kind = "none"
                        THEN row.totalTradeQuantity ELSE row.lastTradedVolume
        volume == SafeFloat(volume_value)
    IN IF symbol = "" THEN symbols
       ELSE IF None \in {open_price, high_price, low_price, close_price} THEN symbols
       ELSE LET new_entry == [date |-> today_str, open |-> open_price[1],
                              high |-> high_price[1], low |-> low_price[1],
                              close |-> close_price[1],
                              volume |-> IF volume = None THEN 0 ELSE volume[1]]
                candles == IF symbol \in DOMAIN symbols THEN symbols[symbol] ELSE <<>>
            IN DictSet(symbols, symbol, UpsertToday(candles, new_entry))

\* lines 1227-1269: the loop over the feed
RECURSIVE MergeFeed(_, _, _)
MergeFeed(symbols, feed, today_str) ==
    IF feed = <<>> THEN symbols
    ELSE MergeFeed(Value(MergeRow(symbols, Head(feed), today_str)), Tail(feed), today_str)

---------------------------------------------------------------------------
(* The file system under the document store: paths name inodes, an open handle
   keeps its inode, os.replace rebinds the destination path in one step *)

StorePath == "ohlc_history.json"
TempPath == "ohlc_history.json.tmp"

EmptyFs == [paths |-> EmptyDict, inodes |-> EmptyDict]

\* os.path.exists(path)
FsExists(f, path) == path \in DOMAIN f.paths

FreshInode(f) ==
    CHOOSE i \in 1 .. Cardinality(DOMAIN f.inodes) + 1 : i \notin DOMAIN f.inodes

\* open(path, "w"): the file is created, or truncated to length 0
FsOpenW(f, path) ==
    IF FsExists(f, path)
    THEN [f EXCEPT !.inodes = DictSet(f.inodes, f.paths[path], <<>>)]
    ELSE LET i == FreshInode(f)
         IN [paths |-> DictSet(f.paths, path, i), inodes |-> DictSet(f.inodes, i, <<>>)]

HoleToken == [t |-> "hole", sym |-> "", c |-> <<>>, upd |-> None]

\* os.replace(src, dst), src existing
FsReplace(f, src, dst) ==
    [f EXCEPT !.paths = DictPop(DictSet(f.paths, dst, f.paths[src]), src)]

\* the inodes no path and no open handle refers to are freed
FsCollect(f, handles) ==
    LET live == { f.paths[q] : q \in DOMAIN f.paths } \cup handles
    IN [f EXCEPT !.inodes = [i \in DOMAIN f.inodes \cap live |-> f.inodes[i]]]

\* open(path).read()
FsRead(f, path) == f.inodes[f.paths[path]]

---------------------------------------------------------------------------
(* json.dump(payload, sort_keys=True) and json.load: the text of the document,
   in pieces *)

SymbolsSorted == <<"A", "B">>

OpenToken == [t |-> "open", sym |-> "", c |-> <<>>, upd |-> None]
CloseToken == [t |-> "close", sym |-> "", c |-> <<>>, upd |-> None]
SymToken(x) == [t |-> "sym", sym |-> x, c |-> <<>>, upd |-> None]
CandleToken(c) == [t |-> "candle", sym |-> "", c |-> <<c>>, upd |-> None]
UpdToken(u) == [t |-> "upd", sym |-> "", c |-> <<>>, upd |-> u]

CandleTokens(candles) == [i \in 1 .. Len(candles) |-> CandleToken(candles[i])]

RECURSIVE SymbolTokens(_, _)
SymbolTokens(symbols, keys) ==
    IF keys = <<>> THEN <<>>
    ELSE (IF Head(keys) \in DOMAIN symbols
          THEN <<SymToken(Head(keys))>> \o CandleTokens(symbols[Head(keys)])
          ELSE <<>>) \o SymbolTokens(symbols, Tail(keys))

\* the keys sorted: "symbols" before "updatedAt", the symbols in order
Serialize(payload) ==
    <<OpenToken>> \o SymbolTokens(payload.symbols, SymbolsSorted)
        \o <<UpdToken(payload.updatedAt), CloseToken>>

\* whether json.load accepts the text
ParseOk(text) ==
    LET n == Len(text) IN
      /\ n >= 3
      /\ text[1].t = "open"
      /\ text[n].t = "close"
      /\ text[n - 1].t = "upd"
      /\ \A i \in 2 .. n - 2 : text[i].t \in {"sym", "candle"}
      /\ n > 3 => text[2].t = "sym"

\* json.load of an accepted text (of a repeated key the last value is kept)
Parse(text) ==
    LET n == Len(text)
        names == { text[i].sym : i \in { j \in 2 .. n - 2 : text[j].t = "sym" } }
        start(x) == CHOOSE i \in 2 .. n - 2 :
                       /\ text[i].t = "sym" /\ text[i].sym = x
                       /\ \A j \in i + 1 .. n - 2 : ~(text[j].t = "sym" /\ text[j].sym = x)
        stop(x) == CHOOSE j \in start(x) + 1 .. n - 1 :
                       /\ text[j].t # "candle"
                       /\ \A k \in start(x) + 1 .. j - 1 : text[k].t = "candle"
    IN [updatedAt |-> text[n - 1].upd,
        symbols |-> [x \in names |->
                       [k \in 1 .. stop(x) - start(x) - 1 |-> text[start(x) + k].c[1]]]]

\* lines 172-189: _load_ohlc_history: the payload and the message
LoadHistory(f) ==
    IF ~FsExists(f, StorePath)
    THEN [payload |-> EmptyPayload, message |-> "OHLC history store not found"]
    ELSE IF ~ParseOk(FsRead(f, StorePath))
    THEN [payload |-> EmptyPayload, message |-> "Unable to read OHLC history store"]
    ELSE [payload |-> Parse(FsRead(f, StorePath)), message |-> ""]

\* the pieces of text written one after the other from offset off
FsWriteAll(f, i, off, text) ==
    LET Written(old, tokens) ==
           [j \in 1 .. Max(Len(old), off + Len(tokens)) |->
              IF j > off /\ j <= off + Len(tokens) THEN tokens[j - off]
              ELSE IF j <= Len(old) THEN old[j] ELSE HoleToken]
    IN [f EXCEPT !.inodes =
          DictSet(f.inodes, i, With2(f.inodes[i], text, Written))]

\* lines 161-169: _ensure_ohlc_history_store run without interruption
EnsureStore(f) ==
    IF FsExists(f, StorePath) THEN f
    ELSE LET g == FsOpenW(f, StorePath)
         IN FsWriteAll(g, g.paths[StorePath], 0, Serialize(EmptyPayload))

\* lines 192-198: _save_ohlc_history run without interruption
SaveHistory(f, payload) ==
    LET g == FsOpenW(EnsureStore(f), TempPath)
        h == FsWriteAll(g, g.paths[TempPath], 0, Serialize(payload))
    IN FsCollect(FsReplace(h, TempPath, StorePath), {})

\* lines 1218-1272: ohlc_snapshot run without interruption: the payload saved
SnapshotPayload(f, feed, today_str) ==
    [updatedAt |-> Some(today_str),
     symbols |-> MergeFeed(Value(LoadHistory(EnsureStore(f)).payload.symbols),
                           feed, today_str)]

---------------------------------------------------------------------------
(* Document backend: a sequence of ohlc_snapshot requests, one at a time *)

ListOf(symbols, x) == IF x \in DOMAIN symbols THEN symbols[x] ELSE <<>>

DatesOf(candles) == { candles[i].date : i \in 1 .. Len(candles) }

\* lines 1228-1245, 1269: updated_symbols, the symbols of the rows not skipped
UpdatedSymbols(feed) ==
    { Upper(feed[i].symbol) :
        i \in { j \in 1 .. Len(feed) :
                  /\ Upper(feed[j].symbol) # ""
                  /\ None \notin {SafeFloat(feed[j].openPrice), SafeFloat(feed[j].highPrice),
                                  SafeFloat(feed[j].lowPrice),
                                  SafeFloat(feed[j].lastTradedPrice)} } }

\* lines 176-180: the payload _load_ohlc_history returns when open() or json.load
\* raises OSError or JSONDecodeError on the file that exists
UnreadablePayload == EmptyPayload

\* lines 1216-1274: ohlc_snapshot; opened is FALSE when the store, which exists
\* after _ensure_ohlc_history_store, cannot be opened for reading at line 177
SnapshotWith(opened) ==
    /\ \E feed \in FeedPool(feedMode) :
         \E before \in {IF opened THEN LoadHistory(EnsureStore(fs)).payload.symbols
                        ELSE UnreadablePayload.symbols},
            after \in {IF opened THEN SnapshotPayload(fs, feed, today)
                       ELSE [updatedAt |-> Some(today),
                             symbols |-> MergeFeed(UnreadablePayload.symbols, feed, today)]} :
            /\ fs' = SaveHistory(EnsureStore(fs), after)
            /\ docLast' = Some([
                  replaced |-> { x \in DOMAIN after.symbols :
                                   /\ today \in DatesOf(ListOf(before, x))
                                   /\ after.symbols[x] # ListOf(before, x) },
                  appended |-> { x \in DOMAIN after.symbols :
                                   /\ today \notin DatesOf(ListOf(before, x))
                                   /\ today \in DatesOf(after.symbols[x]) },
                  updated_symbols |-> UpdatedSymbols(feed),
                  opened |-> opened])
    /\ UNCHANGED <<pureVars, dbVars, fileVars, indVars, timeVars, rlVars, cacheVars, today, feedMode>>

\* a snapshot that reads the store
Snapshot == SnapshotWith(TRUE)

\* a snapshot whose read of the store succeeds or raises
SnapshotAnyRead == \E opened \in BOOLEAN : SnapshotWith(opened)

\* the date changes (to any day: the system date may also be set back); the
\* record of the last snapshot is kept for the current day only
NewDay ==
    /\ \E d \in Days \ {today} : today' = d
    /\ docLast' = None
    /\ UNCHANGED <<pureVars, dbVars, fileVars, indVars, timeVars, rlVars, cacheVars, fs, feedMode>>

DocInit ==
    /\ fs = EmptyFs
    /\ today \in Days
    /\ docLast = None

DocIdle == fs = EmptyFs /\ today = 1 /\ docLast = None /\ feedMode = "none"

---------------------------------------------------------------------------
(* Document backend: concurrent ohlc_snapshot requests and a reader, step by
   step. A step is one file-system call; what a request computes between two
   calls is local to it. *)

Writers == {"w1", "w2"}

NoHandle == 0

\* the inodes some request holds open
OpenHandles == { fHandle[w] : w \in Writers } \ {NoHandle}

\* lines 166 and 1219, 193: os.path.exists(OHLC_HISTORY_PATH) in
\* _ensure_ohlc_history_store, called by ohlc_snapshot and by _save_ohlc_history
WEnsureCheck(w) ==
    /\ fPc[w] \in {"idle", "merged"}
    /\ fPc' = [fPc EXCEPT ![w] =
                 IF FsExists(fs, StorePath)
                 THEN (IF fPc[w] = "idle" THEN "load" ELSE "tmp_open")
                 ELSE (IF fPc[w] = "idle" THEN "ensure1_open" ELSE "ensure2_open")]
    /\ UNCHANGED <<pureVars, dbVars, timeVars, rlVars, cacheVars, docVars, indVars,
                   fHandle, fOff, fPayload, fLoad>>

\* line 168: open(OHLC_HISTORY_PATH, "w")
WEnsureOpen(w) ==
    /\ fPc[w] \in {"ensure1_open", "ensure2_open"}
    /\ fs' = FsOpenW(fs, StorePath)
    /\ fHandle' = [fHandle EXCEPT ![w] = fs'.paths[StorePath]]
    /\ fPc' = [fPc EXCEPT ![w] =
                 IF fPc[w] = "ensure1_open" THEN "ensure1_write" ELSE "ensure2_write"]
    /\ UNCHANGED <<pureVars, dbVars, timeVars, rlVars, cacheVars, indVars, today, feedMode, docLast,
                   fOff, fPayload, fLoad>>

\* line 169: json.dump of the empty payload, flushed when the file is closed
WEnsureWrite(w) ==
    /\ fPc[w] \in {"ensure1_write", "ensure2_write"}
    /\ fs' = FsCollect(FsWriteAll(fs, fHandle[w], 0, Serialize(EmptyPayload)),
                       OpenHandles \ {fHandle[w]})
    /\ fHandle' = [fHandle EXCEPT ![w] = NoHandle]
    /\ fPc' = [fPc EXCEPT ![w] =
                 IF fPc[w] = "ensure1_write" THEN "load" ELSE "tmp_open"]
    /\ UNCHANGED <<pureVars, dbVars, timeVars, rlVars, cacheVars, indVars, today, feedMode, docLast,
                   fOff, fPayload, fLoad>>

\* lines 1220-1271: _load_ohlc_history, then the rows of the feed merged into
\* the payload that was read
WLoad(w) ==
    /\ fPc[w] = "load"
    /\ \E feed \in FeedPool(feedMode) :
         fPayload' = [fPayload EXCEPT ![w] =
                        Some([updatedAt |-> Some(today),
                              symbols |-> MergeFeed(LoadHistory(fs).payload.symbols,
                                                    feed, today)])]
    /\ fPc' = [fPc EXCEPT ![w] = "merged"]
    /\ UNCHANGED <<pureVars, dbVars, timeVars, rlVars, cacheVars, docVars, indVars, fHandle, fOff, fLoad>>

\* line 196: open(temp_path, "w")
WTmpOpen(w) ==
    /\ fPc[w] = "tmp_open"
    /\ fs' = FsOpenW(fs, TempPath)
    /\ fHandle' = [fHandle EXCEPT ![w] = fs'.paths[TempPath]]
    /\ fOff' = [fOff EXCEPT ![w] = 0]
    /\ fPc' = [fPc EXCEPT ![w] = "tmp_write"]
    /\ UNCHANGED <<pureVars, dbVars, timeVars, rlVars, cacheVars, indVars, today, feedMode, docLast,
                   fPayload, fLoad>>

\* line 197: json.dump writes the text in pieces, each at the handle's own
\* offset; the file is closed after the last piece
WTmpWrite(w) ==
    /\ fPc[w] = "tmp_write"
    /\ \E text \in {Serialize(fPayload[w][1])} :
         \E k \in {1, Len(text) - fOff[w]} :
            /\ fs' = FsCollect(
                        FsWriteAll(fs, fHandle[w], fOff[w],
                                   SubSeq(text, fOff[w] + 1, fOff[w] + k)),
                        IF fOff[w] + k = Len(text)
                        THEN OpenHandles \ {fHandle[w]} ELSE OpenHandles)
            /\ IF fOff[w] + k = Len(text)
               THEN /\ fPc' = [fPc EXCEPT ![w] = "replace"]
                    /\ fHandle' = [fHandle EXCEPT ![w] = NoHandle]
                    /\ fOff' = [fOff EXCEPT ![w] = 0]
               ELSE /\ fOff' = [fOff EXCEPT ![w] = fOff[w] + k]
                    /\ UNCHANGED <<pureVars, dbVars, fPc, fHandle>>
    /\ UNCHANGED <<pureVars, dbVars, timeVars, rlVars, cacheVars, indVars, today, feedMode, docLast,
                   fPayload, fLoad>>

\* line 198: os.replace(temp_path, OHLC_HISTORY_PATH); it raises when the
\* temporary file is gone, and the request ends
WReplace(w) ==
    /\ fPc[w] = "replace"
    /\ fs' = IF FsExists(fs, TempPath)
             THEN FsCollect(FsReplace(fs, TempPath, StorePath), OpenHandles)
             ELSE fs
    /\ fPc' = [fPc EXCEPT ![w] = "idle"]
    /\ fPayload' = [fPayload EXCEPT ![w] = None]
    /\ UNCHANGED <<pureVars, dbVars, timeVars, rlVars, cacheVars, indVars, today, feedMode, docLast,
                   fHandle, fOff, fLoad>>

\* lines 172-189: _load_ohlc_history called by a reader (ohlc_history through
\* _get_ohlc_candles_for_symbol)
ReaderLoad ==
    /\ fLoad' = Some([found |-> FsExists(fs, StorePath),
                      complete |-> FsExists(fs, StorePath)
                                     /\ ParseOk(FsRead(fs, StorePath)),
                      message |-> LoadHistory(fs).message])
    /\ UNCHANGED <<pureVars, dbVars, timeVars, rlVars, cacheVars, docVars, indVars,
                   fPc, fHandle, fOff, fPayload>>

FileInit ==
    /\ fPc = [w \in Writers |-> "idle"]
    /\ fHandle = [w \in Writers |-> NoHandle]
    /\ fOff = [w \in Writers |-> 0]
    /\ fPayload = [w \in Writers |-> None]
    /\ fLoad = None

FileIdle == FileInit

---------------------------------------------------------------------------
(* Relational backend: the table daily_ohlc and the upsert batch of
   refresh_daily_ohlc *)

\* lines 674, 675, 701, 735: timestamps are counted in slots, SlotsPerDay to a
\* day; ts::timestamptz::date and CURRENT_DATE are the day a slot lies in
DateOf(ts) == ts \div SlotsPerDay

\* lines 722-735: the columns ON CONFLICT ... DO UPDATE SET assigns
UpdatedColumns ==
    {"security_id", "security_name", "sector", "open_price", "high_price",
     "low_price", "close_price", "prev_close", "volume", "trade_qty",
     "trade_value", "pct_change", "last_updated"}

\* lines 659-676: the columns of daily_ohlc
Columns == {"id", "trading_date", "symbol", "created_at"} \cup UpdatedColumns

\* line 677: UNIQUE (symbol, trading_date)
KeyOf(row) == <<row.symbol, row.trading_date>>

\* lines 802-819: one entry of payloads
Payload(symbol, security_id, price, last_updated) ==
    [symbol |-> symbol, security_id |-> security_id, security_name |-> Some("name"),
     sector |-> None, open_price |-> price, high_price |-> price,
     low_price |-> price, close_price |-> price, prev_close |-> None,
     volume |-> price, trade_qty |-> price, trade_value |-> None,
     pct_change |-> None, last_updated |-> last_updated]

Payloads ==
    { Payload("A", Some(1), Some(10), Some(1)),
      Payload("A", None, None, Some(0)),
      Payload("A", Some(1), Some(11), None),
      Payload("B", Some(2), Some(20), Some(3)),
      Payload("B", Some(2), None, None) }

Batches == UNION { [1 .. k -> Payloads] : k \in 1 .. MaxBatch }

\* lines 700-716: the row proposed for insertion (EXCLUDED), with the defaults
\* of the columns the statement does not list: id from the sequence, created_at
\* NOW()
Excluded(p, now, id) ==
    [c \in Columns |->
       CASE c = "id" -> id
         [] c = "created_at" -> now
         [] c = "trading_date" ->
              IF p.last_updated # None THEN DateOf(p.last_updated[1]) ELSE DateOf(now)
         [] OTHER -> p[c]]

\* an insert without the ON CONFLICT clause and without the constraint
Upsert_AlwaysInsert(table, p, now, id) == table \cup {Excluded(p, now, id)}

\* an upsert whose update keeps the stored value where the incoming one is null
Upsert_KeepNonNull(table, p, now, id) ==
    LET excluded == Excluded(p, now, id)
        conflict == { r \in table : KeyOf(r) = KeyOf(excluded) }
    IN IF conflict = {}
       THEN table \cup {excluded}
       ELSE (table \ conflict)
               \cup { [c \in Columns |->
                         IF c \in UpdatedColumns /\ excluded[c] # None
                         THEN excluded[c] ELSE r[c]] :
                      r \in conflict }

\* lines 687-737: UPSERT_DAILY_OHLC_SQL on the table
Upsert(table, p, now, id) ==
    LET excluded == Excluded(p, now, id)
        conflict == { r \in table : KeyOf(r) = KeyOf(excluded) }
    IN IF conflict = {}
       THEN table \cup {excluded}
       ELSE (table \ conflict)
               \cup { [c \in Columns |->
                         IF c \in UpdatedColumns THEN excluded[c] ELSE r[c]] :
                      r \in conflict }

RECURSIVE ExecuteBatch(_, _, _, _)
\* line 828: extras.execute_batch: one statement per payload, in order, in one
\* transaction; id is the last value the sequence gave
ExecuteBatch(table, batch, now, id) ==
    IF batch = <<>> THEN table
    ELSE ExecuteBatch(Upsert(table, Head(batch), now, id + 1), Tail(batch), now, id + 1)

RECURSIVE LatestAfter(_, _, _, _)
\* per (symbol, trading_date), the row proposed by the most recent upsert
LatestAfter(latest, batch, now, id) ==
    IF batch = <<>> THEN latest
    ELSE LET excluded == Excluded(Head(batch), now, id + 1)
         IN LatestAfter(DictSet(latest, KeyOf(excluded), excluded),
                        Tail(batch), now, id + 1)

\* lines 824-832: the batch is executed and committed
RefreshFrom(pool) ==
    /\ \E batch \in pool :
         /\ idSeq + Len(batch) <= MaxId
         /\ \E after \in {ExecuteBatch(daily_ohlc, batch, dbTime, idSeq)} :
              /\ daily_ohlc' = after
              /\ dbLast' = Some([
                    batch |-> batch,
                    day |-> DateOf(dbTime),
                    changed |-> after # daily_ohlc,
                    repeats |-> dbLast # None /\ dbLast[1].batch = batch,
                    sameDay |-> dbLast # None /\ dbLast[1].day = DateOf(dbTime),
                    nulled |-> \E r \in daily_ohlc, q \in after :
                                  /\ KeyOf(r) = KeyOf(q)
                                  /\ r.close_price # None
                                  /\ q.close_price = None])
         /\ idSeq' = idSeq + Len(batch)
         /\ dbLatest' = LatestAfter(dbLatest, batch, dbTime, idSeq)
    /\ dbRead' = None
    /\ UNCHANGED <<pureVars, timeVars, rlVars, cacheVars, docVars, indVars, fileVars, dbTime>>

RefreshDailyOhlc == RefreshFrom(Batches)

\* the database clock advances
DbElapse ==
    /\ dbTime < MaxDbTime
    /\ dbTime' = dbTime + 1
    /\ UNCHANGED <<pureVars, timeVars, rlVars, cacheVars, docVars, indVars, fileVars,
                   daily_ohlc, idSeq, dbLatest, dbLast, dbRead>>

DbInit ==
    /\ daily_ohlc = {}
    /\ idSeq = 0
    /\ dbTime = 0
    /\ dbLatest = EmptyDict
    /\ dbLast = None
    /\ dbRead = None

DbIdle == DbInit

---------------------------------------------------------------------------
(* Relational backend: the range read of get_ohlc_history *)

\* the rows refresh_daily_ohlc receives in the runs that are read back: symbol
\* A on three dates, symbol B on one
RangePayloads ==
    { Payload("A", Some(1), Some(10), Some(0)),
      Payload("A", Some(1), Some(11), Some(SlotsPerDay)),
      Payload("A", Some(1), Some(12), Some(2 * SlotsPerDay)),
      Payload("B", Some(2), Some(20), Some(SlotsPerDay)) }

RangeBatches == { <<p>> : p \in RangePayloads }

RefreshForRange == RefreshFrom(RangeBatches)

\* request.args: from and to as dates or None (absent, or not %Y-%m-%d: lines
\* 1200-1206), limit absent, not an integer, or an integer
FromParams == {None, Some(0), Some(1)}
ToParams == {None, Some(1), Some(2)}

LimitParams ==
    { [given |-> FALSE, integer |-> TRUE, n |-> 0],
      [given |-> TRUE, integer |-> FALSE, n |-> 0] }
       \cup { [given |-> TRUE, integer |-> TRUE, n |-> n] : n \in {-1, 0, 2} }

\* line 1328 of the query: trading_date BETWEEN from AND to
InRange_Exclusive(d, from_date, to_date) == from_date < d /\ d < to_date

\* line 1337: trading_date BETWEEN %s AND %s
InRange(d, from_date, to_date) == from_date <= d /\ d <= to_date

RECURSIVE OrderByDate(_)
\* line 1338: ORDER BY trading_date ASC
OrderByDate(rows) ==
    IF rows = {} THEN <<>>
    ELSE LET first == CHOOSE r \in rows :
                         \A q \in rows : r.trading_date <= q.trading_date
         IN <<first>> \o OrderByDate(rows \ {first})

\* line 1339: LIMIT n, n >= 0
Limit(rows, n) == SubSeq(rows, 1, IF n < Len(rows) THEN n ELSE Len(rows))

\* lines 1343-1357: the response entry of a row
ResponseRow(row) ==
    [date |-> row.trading_date, open |-> row.open_price, high |-> row.high_price,
     low |-> row.low_price, close |-> row.close_price,
     prev_close |-> row.prev_close, volume |-> row.volume,
     trade_qty |-> row.trade_qty, trade_value |-> row.trade_value,
     pct_change |-> row.pct_change]

\* lines 1301-1359: get_ohlc_history on the table, on the day today
OhlcHistory(table, symbol, from_param, to_param, limit_param, today_date) ==
    IF ~limit_param.integer
    THEN [status |-> 400, rows |-> <<>>, from_date |-> 0, to_date |-> 0, limit |-> 0]
    ELSE LET limit == IF limit_param.given THEN limit_param.n ELSE DEFAULT_LIMIT
             to_date == IF to_param = None THEN today_date ELSE to_param[1]
             from_date == IF from_param = None THEN to_date - DEFAULT_RANGE_DAYS
                          ELSE from_param[1]
             selected == { r \in table :
                             /\ r.symbol = Upper(symbol)
                             /\ InRange(r.trading_date, from_date, to_date) }
         IN IF limit < 0
            THEN [status |-> 500, rows |-> <<>>, from_date |-> from_date,
                  to_date |-> to_date, limit |-> limit]
            ELSE [status |-> 200,
                  rows |-> LET page == Limit(OrderByDate(selected), limit)
                           IN [i \in 1 .. Len(page) |-> ResponseRow(page[i])],
                  from_date |-> from_date, to_date |-> to_date, limit |-> limit]

\* one GET /api/ohlc/<symbol> request; the history variable keeps one request
\* per refresh
GetOhlcHistory ==
    /\ dbRead = None
    /\ \E symbol \in {"a", "B"}, from_param \in FromParams,
          to_param \in ToParams, limit_param \in LimitParams :
         dbRead' = Some([symbol |-> symbol,
                         answer |-> OhlcHistory(daily_ohlc, symbol, from_param,
                                                to_param, limit_param,
                                                DateOf(dbTime))])
    /\ UNCHANGED <<pureVars, timeVars, rlVars, cacheVars, docVars, indVars, fileVars,
                   daily_ohlc, idSeq, dbTime, dbLatest, dbLast>>

---------------------------------------------------------------------------
(* The candle normalizer: _parse_time_to_unix_seconds, _safe_json_number and
   _normalize_candle_row.  A timestamp is wider than the integers of the
   model checker, so the floats of the time parser are kept as thousands
   (kilo), units (0 .. 999) and tenths (0 .. 9). *)

Wide(k, u, t) == [cls |-> "fin", kilo |-> k, unit |-> u, tenth |-> t]
WideNaN == [cls |-> "nan", kilo |-> 0, unit |-> 0, tenth |-> 0]
WideInf == [cls |-> "inf", kilo |-> 0, unit |-> 0, tenth |-> 0]
WideNegInf == [cls |-> "ninf", kilo |-> 0, unit |-> 0, tenth |-> 0]

\* lines 118, 130: 1_000_000_000_000 and lines 120, 132: 1_000_000_000
MillisThreshold == Wide(1000000000, 0, 0)
SecondsThreshold == Wide(1000000, 0, 0)

\* numeric > threshold on floats: false for nan
GreaterThan(w, threshold) ==
    CASE w.cls = "inf" -> TRUE
      [] w.cls = "fin" ->
            \/ w.kilo > threshold.kilo
            \/ w.kilo = threshold.kilo /\ w.unit > threshold.unit
            \/ w.kilo = threshold.kilo /\ w.unit = threshold.unit /\ w.tenth > threshold.tenth
      [] OTHER -> FALSE

\* line 117: float(value) of an int or float cell
WideOfCell(cell) ==
    CASE cell.kind = "nan" -> WideNaN
      [] cell.kind = "inf" -> WideInf
      [] OTHER -> Wide(cell.kilo + (cell.num \div 1000), cell.num % 1000, 0)

\* line 124: str(value).strip() on the strings of the model
Strip(text) ==
    CASE text = " 1700000000 " -> "1700000000"
      [] text = "  " -> ""
      [] OTHER -> text

\* line 129: float(value_str): the float, or None for ValueError
TimeFloat(text) ==
    CASE text = "5" -> Some(Wide(0, 5, 0))
      [] text = "1000000000" -> Some(Wide(1000000, 0, 0))
      [] text = "1700000000" -> Some(Wide(1700000, 0, 0))
      [] text = "1700000000.7" -> Some(Wide(1700000, 0, 7))
      [] text = "1000000000000" -> Some(Wide(1000000000, 0, 0))
      [] text = "1700000000999" -> Some(Wide(1700000000, 999, 0))
      [] text = "nan" -> Some(WideNaN)
      [] text = "inf" -> Some(WideInf)
      [] text = "-inf" -> Some(WideNegInf)
      [] OTHER -> None

\* lines 136-156: datetime.fromisoformat and the four strptime formats, then
\* int(parsed.timestamp()) (the zone of the process is UTC); None when no
\* format matches
ParseDate(text) ==
    CASE text = "2024-01-01" -> Some([kilo |-> 1704067, unit |-> 200])
      [] OTHER -> None

\* what a call leaves behind: a value, None, or an exception
TimeValue(k, u) == [res |-> "value", kilo |-> k, unit |-> u]
TimeNone == [res |-> "none", kilo |-> 0, unit |-> 0]
TimeRaise == [res |-> "raise", kilo |-> 0, unit |-> 0]

\* lines 118-121, 130-133: the two magnitude branches; int() of a float that
\* is not finite raises OverflowError; "below" when neither branch returns
Magnitude(numeric) ==
    IF GreaterThan(numeric, MillisThreshold)
    THEN IF numeric.cls # "fin" THEN TimeRaise
         ELSE TimeValue(numeric.kilo \div 1000, numeric.kilo % 1000)
    ELSE IF GreaterThan(numeric, SecondsThreshold)
    THEN TimeValue(numeric.kilo, numeric.unit)
    ELSE [res |-> "below", kilo |-> 0, unit |-> 0]

\* lines 136-158: the date formats, tried when the string is not a timestamp
DateBranch(value_str) ==
    LET parsed == ParseDate(value_str)
    IN IF parsed = None THEN TimeNone ELSE TimeValue(parsed[1].kilo, parsed[1].unit)

\* lines 112-158: _parse_time_to_unix_seconds(value)
ParseTimeToUnixSeconds(value) ==
    IF value.kind = "none" \/ (value.kind = "str" /\ value.text = "") THEN TimeNone
    ELSE IF value.kind # "str"
    THEN LET m == Magnitude(WideOfCell(value))
         IN IF m.res = "below" THEN TimeNone ELSE m
    ELSE LET value_str == Strip(value.text)
             numeric == TimeFloat(value_str)
         IN IF value_str = "" THEN TimeNone
            ELSE IF numeric = None THEN DateBranch(value_str)
            ELSE LET m == Magnitude(numeric[1])
                 IN IF m.res = "below" THEN DateBranch(value_str) ELSE m

\* a conversion that lets every float through
SafeJsonNumber_Identity(value) == value

\* lines 104-109: _safe_json_number(value) on an optional float

SafeJsonNumber(value) ==
    IF value = None THEN None
    ELSE IF ~IsFinite(value[1]) THEN None
    ELSE value

\* raw.get(key) and raw.get(key, default) on a row that holds some of the keys
Get(raw, key) == IF key \in DOMAIN raw THEN raw[key] ELSE RNone
GetDefault(raw, key, default) == IF key \in DOMAIN raw THEN raw[key] ELSE default

\* the truth value of a cell, and the operator `or`
Truthy(cell) ==
    CASE cell.kind = "none" -> FALSE
      [] cell.kind = "num" -> cell.kilo # 0 \/ cell.num # 0
      [] cell.kind = "str" -> cell.text # ""
      [] OTHER -> TRUE
Or(a, b) == IF Truthy(a) THEN a ELSE b

\* x if x is not None else y
IfNotNone(x, y) == IF x.kind # "none" THEN x ELSE y

\* lines 255-276: the raw value chosen for each field of the candle
ResolveFields(raw) ==
    [time |-> Or(Get(raw, "time"), Or(Get(raw, "timestamp"), Or(Get(raw, "date"),
                 Or(Get(raw, "businessDate"), Get(raw, "tradeDate"))))),
     open |-> IfNotNone(Get(raw, "open"), Get(raw, "openPrice")),
     high |-> IfNotNone(Get(raw, "high"), Get(raw, "highPrice")),
     low |-> IfNotNone(Get(raw, "low"), Get(raw, "lowPrice")),
     close |-> IfNotNone(Get(raw, "close"),
                         GetDefault(raw, "closePrice", Get(raw, "lastTradedPrice"))),
     volume |-> IfNotNone(Get(raw, "volume"),
                          GetDefault(raw, "totalTradeQuantity", Get(raw, "lastTradedVolume")))]

NoCandle == [res |-> "none", candle |-> <<>>]
RaisedCandle == [res |-> "raise", candle |-> <<>>]

\* lines 251-294: _normalize_candle_row(raw) for a dict raw
NormalizeCandleRow(raw) ==
    LET used == ResolveFields(raw)
        unix_time == ParseTimeToUnixSeconds(used.time)
        open_price == SafeFloat(used.open)
        high_price == SafeFloat(used.high)
        low_price == SafeFloat(used.low)
        close_price == SafeFloat(used.close)
        volume == SafeFloat(used.volume)
        json_volume == SafeJsonNumber(volume)
    IN IF unix_time.res = "raise" THEN RaisedCandle
       ELSE IF unix_time.res = "none"
               \/ None \in {open_price, high_price, low_price, close_price}
       THEN NoCandle
       ELSE [res |-> "candle",
             candle |-> <<[time |-> [kilo |-> unix_time.kilo, unit |-> unix_time.unit],
                           open |-> SafeJsonNumber(open_price),
                           high |-> SafeJsonNumber(high_price),
                           low |-> SafeJsonNumber(low_price),
                           close |-> SafeJsonNumber(close_price),
                           volume |-> IF json_volume = None THEN Some(0)
                                      ELSE json_volume]>>]

\* the values given to the time parser
TimeCells ==
    { RNone, RNaN, RInf, RNum(0), RNum(5), RNum(1000000000), RNum(1000000001),
      RNum(1700000000), RBig(1000000000, 0), RBig(1000000000, 1), RBig(1700000000, 999),
      RStr(""), RStr("  "), RStr("5"), RStr("1000000000"), RStr("1700000000"),
      RStr(" 1700000000 "), RStr("1700000000.7"), RStr("1000000000000"),
      RStr("1700000000999"), RStr("nan"), RStr("inf"), RStr("-inf"),
      RStr("2024-01-01"), RStr("n/a") }

\* the values of the price and volume fields
PriceCells ==
    { RNone, RNaN, RInf, RNum(0), RNum(10), RStr(""), RStr("12"), RStr("1,250"),
      RStr("n/a"), RStr("nan"), RStr("inf"), RStr("-inf") }

\* dict(base, **changes) restricted to the keys that are not dropped
RowWith(base, dropped, changes) ==
    [k \in (DOMAIN base \ dropped) \cup DOMAIN changes |->
        IF k \in DOMAIN changes THEN changes[k] ELSE base[k]]

\* every way to give some of the keys a value of cells
Assignments(keys, cells) == UNION { [present -> cells] : present \in SUBSET keys }

BaseRow ==
    [time |-> RNum(1700000000), open |-> RNum(10), high |-> RNum(12),
     low |-> RNum(9), close |-> RNum(11), volume |-> RNum(5)]

\* the raw rows given to the normalizer: BaseRow with the aliases of one field
\* absent, null or set
RawRows ==
    { RowWith(BaseRow, {"time"}, a) :
        a \in Assignments({"time", "timestamp"}, TimeCells) }
    \cup { RowWith(BaseRow, {"time"}, a) :
        a \in Assignments({"time", "timestamp", "date", "businessDate", "tradeDate"},
                          {RNone, RNum(0), RStr(""), RBig(1700000000, 999)}) }
    \cup UNION { { RowWith(BaseRow, {x}, a) :
                     a \in Assignments({x, x \o "Price"}, PriceCells) } :
                 x \in {"open", "high", "low"} }
    \cup { RowWith(BaseRow, {"close"}, a) :
        a \in Assignments({"close", "closePrice", "lastTradedPrice"},
                          {RNone, RNum(21), RStr("nan"), RStr("n/a")}) }
    \cup { RowWith(BaseRow, {"volume"}, a) :
        a \in Assignments({"volume", "totalTradeQuantity", "lastTradedVolume"},
                          {RNone, RNum(0), RNum(7), RStr("nan"), RStr("n/a")}) }

\* one call of _parse_time_to_unix_seconds, on the value drawn for this run
ParseTime ==
    /\ timeIn # None /\ timeOut = None
    /\ timeOut' = Some(ParseTimeToUnixSeconds(timeIn[1]))
    /\ UNCHANGED <<timeIn, normIn, normUsed, normOut, taVars>>
    /\ UNCHANGED <<timeVars, rlVars, cacheVars, docVars, indVars, fileVars, dbVars, sideVars>>

\* one call of _normalize_candle_row, on the row drawn for this run
NormalizeRow ==
    /\ normIn # None /\ normOut = None
    /\ normUsed' = Some(ResolveFields(normIn[1]))
    /\ normOut' = Some(NormalizeCandleRow(normIn[1]))
    /\ UNCHANGED <<normIn, timeIn, timeOut, taVars>>
    /\ UNCHANGED <<timeVars, rlVars, cacheVars, docVars, indVars, fileVars, dbVars, sideVars>>

\* no call is under way
NormIdle ==
    normIn = None /\ normUsed = None /\ normOut = None /\ timeIn = None /\ timeOut = None

\* a run of the normalizer has one input: a raw row or a time value
NormInit ==
    /\ normUsed = None /\ normOut = None /\ timeOut = None
    /\ \/ normIn \in { Some(raw) : raw \in RawRows } /\ timeIn = None
       \/ normIn = None /\ timeIn \in { Some(value) : value \in TimeCells }

---------------------------------------------------------------------------
(* The batch of stored rows in _get_or_fetch_ta_history *)

MaxRows == 2

\* lines 447-454: the dict handed to the normalizer, row.get(key) for six keys
StoredRaw(row) ==
    [date |-> Get(row, "date"), open |-> Get(row, "open"), high |-> Get(row, "high"),
     low |-> Get(row, "low"), close |-> Get(row, "close"), volume |-> Get(row, "volume")]

\* the order of two candle times
TimeLeq(a, b) == a.kilo < b.kilo \/ (a.kilo = b.kilo /\ a.unit <= b.unit)

\* line 459: candles.sort(key=time), a stable sort
RECURSIVE SortByTime(_)
SortByTime(candles) ==
    IF Len(candles) <= 1 THEN candles
    ELSE LET x == candles[Len(candles)]
             Insert(head) ==
                LET n == Cardinality({ i \in 1 .. Len(head) : TimeLeq(head[i].time, x.time) })
                IN SubSeq(head, 1, n) \o <<x>> \o SubSeq(head, n + 1, Len(head))
         IN Insert(Value(SortByTime(SubSeq(candles, 1, Len(candles) - 1))))

\* lines 444-459: the candles of the rows the normalizer accepts, sorted by time;
\* None when a call of the normalizer raises, which ends the loop and the call
TaHistoryCandles(raw_candles) ==
    LET results == [i \in 1 .. Len(raw_candles) |->
                       NormalizeCandleRow(StoredRaw(raw_candles[i]))]
        accepted == SelectSeq(results, LAMBDA r : r.res = "candle")
    IN IF \E i \in 1 .. Len(results) : results[i].res = "raise" THEN None
       ELSE Some(SortByTime([i \in 1 .. Len(accepted) |-> accepted[i].candle[1]]))

StoredBase ==
    [date |-> RStr("2024-01-01"), open |-> RNum(10), high |-> RNum(12),
     low |-> RNum(9), close |-> RNum(11), volume |-> RNum(5)]

\* the rows a symbol's list may hold in ohlc_history.json: rows as ohlc_snapshot
\* writes them, and rows with a date or a price the normalizer does not accept
StoredRows ==
    { RowWith(StoredBase, {}, [date |-> d]) :
        d \in {RStr("2024-01-01"), RNum(1700000000), RNum(5), RNone, RStr("n/a"),
               RStr("inf"), RInf} }
    \cup { RowWith(StoredBase, {}, [open |-> c, close |-> RNum(21)]) :
             c \in {RNum(10), RNone, RStr("n/a"), RNaN} }
    \cup { RowWith(StoredBase, {"date"}, [close |-> RNum(22)]),
           RowWith(StoredBase, {"volume"}, [date |-> RNum(1700000000), close |-> RNum(23)]) }

StoredBatches == UNION { [1 .. k -> StoredRows] : k \in 0 .. MaxRows }

\* one call of _get_or_fetch_ta_history for a symbol whose stored rows are those
\* drawn for this run
FetchTaHistory ==
    /\ histIn # None /\ histOut = None
    /\ \E candles \in {TaHistoryCandles(histIn[1].rows)} :
         \E call \in {GetOrFetchTaHistory(cache_store, histIn[1].security_id, clock,
                         IF candles = None THEN None
                         ELSE Some(HistoryPayload(histIn[1].security_id, candles[1])))} :
            /\ cache_store' = call.store
            /\ histOut' = Some([raised |-> call.payload = None,
                                candles |-> IF call.payload = None THEN <<>>
                                            ELSE call.payload[1].candles])
    /\ UNCHANGED <<histIn, normVars, taVars, reqVars>>
    /\ UNCHANGED <<timeVars, rlVars, docVars, indVars, fileVars, dbVars,
                   cPc, cKey, cNow, cRet, cLastSet>>

HistInit ==
    /\ histOut = None
    /\ histIn \in { Some([security_id |-> id, rows |-> rows]) :
                      id \in SecurityIds, rows \in StoredBatches }

HistIdle == histIn = None /\ histOut = None

---------------------------------------------------------------------------
(* Float arithmetic.  A finite float is a whole number of quanta of
   1 / FloatScale, kept to FloatBits significant bits and to the range
   -FloatMax .. FloatMax; every operation rounds its exact result to the
   nearest such float, ties to the even mantissa, and overflows to an
   infinity. *)

\* the float of the integer n
F(n) == n * FloatScale

Abs(x) == IF x < 0 THEN 0 - x ELSE x

RECURSIVE Pow2(_)
Pow2(e) == IF e = 0 THEN 1 ELSE 2 * Pow2(e - 1)

\* the least exponent at which a / den has at most FloatBits bits
RECURSIVE Exponent(_, _, _)
Exponent(a, den, e) ==
    IF a \div (den * Pow2(e)) < Pow2(FloatBits) THEN e ELSE Exponent(a, den, e + 1)

\* the float nearest to the rational num / den (in quanta), den > 0
RoundRat(num, den) ==
    LET a == Abs(num)
        inf == IF num < 0 THEN NegInf ELSE PosInf
    IN IF a >= 2 * FloatMax * den THEN inf
       ELSE LET step == den * Pow2(Exponent(a, den, 0))
                q == a \div step
                rem == a % step
                r == IF 2 * rem > step \/ (2 * rem = step /\ q % 2 = 1) THEN q + 1 ELSE q
                mag == r * (step \div den)
            IN IF mag > FloatMax THEN inf
               ELSE IF num < 0 THEN 0 - mag ELSE mag

Neg(x) == IF x = NaN THEN NaN ELSE 0 - x

\* x + y
Add(x, y) ==
    IF x = NaN \/ y = NaN THEN NaN
    ELSE IF ~IsFinite(x) /\ ~IsFinite(y) THEN (IF x = y THEN x ELSE NaN)
    ELSE IF ~IsFinite(x) THEN x
    ELSE IF ~IsFinite(y) THEN y
    ELSE RoundRat(x + y, 1)

\* x - y
Sub(x, y) == Add(x, Neg(y))

\* x * y
Mul(x, y) ==
    IF x = NaN \/ y = NaN THEN NaN
    ELSE IF ~IsFinite(x) \/ ~IsFinite(y)
    THEN (IF x = 0 \/ y = 0 THEN NaN
          ELSE IF (x < 0) = (y < 0) THEN PosInf ELSE NegInf)
    ELSE RoundRat(x * y, FloatScale)

\* x / y for y # 0
Div(x, y) ==
    IF x = NaN \/ y = NaN THEN NaN
    ELSE IF ~IsFinite(x)
    THEN (IF ~IsFinite(y) THEN NaN
          ELSE IF (x < 0) = (y < 0) THEN PosInf ELSE NegInf)
    ELSE IF ~IsFinite(y) THEN 0
    ELSE RoundRat(IF y < 0 THEN 0 - (x * FloatScale) ELSE x * FloatScale, Abs(y))

\* x ** 2 raises OverflowError when a finite x has no finite square
SquareRaises(x) == IsFinite(x) /\ ~IsFinite(Mul(x, x))

\* math.sqrt(x) for x >= 0 or nan
Sqrt(x) ==
    IF x = NaN \/ x = PosInf THEN x
    ELSE LET y == x * FloatScale
             r == CHOOSE s \in 0 .. y : s * s <= y /\ (s + 1) * (s + 1) > y
         IN RoundRat(IF y > r * r + r THEN r + 1 ELSE r, 1)

\* sum(values[:k]), from the left, starting at 0
RECURSIVE SumTo(_, _)
SumTo(values, k) == IF k = 0 THEN 0 ELSE Add(SumTo(values, k - 1), values[k])

---------------------------------------------------------------------------
(* The indicator functions: _sma, _ema, _rsi_wilder, _ema_values_only, _macd
   and _bollinger.  values[i] and times[i] of the model are values[i - 1] and
   times[i - 1] of the code.  A close is Some(float), or None for a candle
   whose close is null; arithmetic on None raises TypeError. *)

\* {"time": time, "value": _safe_json_number(value)}
Point(time, value) == [time |-> time, value |-> SafeJsonNumber(Some(value))]

Returned(series) == [res |-> "ok", series |-> series]
Raised == [res |-> "raise", series |-> <<>>]

HasNone(values) == \E i \in DOMAIN values : values[i] = None
Floats(values) == [i \in DOMAIN values |-> values[i][1]]

\* lines 475-479: the running window sum after the step for values[idx]
RECURSIVE WindowSums(_, _, _, _)
WindowSums(values, period, idx, acc) ==
    IF idx > Len(values) THEN acc
    ELSE WindowSums(values, period, idx + 1,
                    Append(acc, Add(acc[Len(acc)],
                                    Sub(values[idx], values[idx - period]))))

\* the window sums of _sma, first to last
SmaSums(values, period) ==
    WindowSums(values, period, period + 1, <<SumTo(values, period)>>)

\* an average whose points are stamped from the first time on
Sma_EarlyTimes(values, period, times) ==
    IF Len(values) < period THEN [res |-> "ok", series |-> [value |-> <<>>]]
    ELSE IF HasNone(values) THEN Raised
    ELSE LET sums == SmaSums(Floats(values), period)
         IN Returned([value |->
               [k \in 1 .. Len(sums) |-> Point(times[k], Div(sums[k], F(period)))]])

\* lines 471-480: _sma(values, period, times)
Sma(values, period, times) ==
    IF Len(values) < period THEN Returned([value |-> <<>>])
    ELSE IF HasNone(values) THEN Raised
    ELSE LET sums == SmaSums(Floats(values), period)
         IN Returned([value |->
               [k \in 1 .. Len(sums) |->
                   Point(times[period - 1 + k], Div(sums[k], F(period)))]])

\* lines 490-492, 531-532: the recurrence of the exponential average
RECURSIVE EmaFrom(_, _, _, _)
EmaFrom(values, multiplier, idx, acc) ==
    IF idx > Len(values) THEN acc
    ELSE LET ema_prev == acc[Len(acc)]
         IN EmaFrom(values, multiplier, idx + 1,
                    Append(acc, Add(Mul(Sub(values[idx], ema_prev), multiplier), ema_prev)))

\* lines 526-533: the list of _ema_values_only(values, period); its start
\* index is period - 1
EmaValuesOnly(values, period) ==
    IF Len(values) < period THEN <<>>
    ELSE EmaFrom(values, Div(F(2), F(period + 1)), period + 1,
                 <<Div(SumTo(values, period), F(period))>>)

\* lines 483-494: _ema(values, period, times)
Ema(values, period, times) ==
    IF Len(values) < period THEN Returned([value |-> <<>>])
    ELSE IF HasNone(values) THEN Raised
    ELSE LET ema == EmaValuesOnly(Floats(values), period)
         IN Returned([value |->
               [k \in 1 .. Len(ema) |-> Point(times[period - 1 + k], ema[k])]])

\* lines 501-506: gains and losses of the changes between consecutive values
Gains(values) ==
    [i \in 1 .. Len(values) - 1 |-> Max(Sub(values[i + 1], values[i]), 0)]
Losses(values) ==
    [i \in 1 .. Len(values) - 1 |-> Abs(Min(Sub(values[i + 1], values[i]), 0))]

\* an RSI that takes the ratio of the averages as 0 when there is no loss
RsiOf_ZeroRatio(avg_gain, avg_loss) ==
    LET rs == IF avg_loss = 0 THEN 0 ELSE Div(avg_gain, avg_loss)
    IN Sub(F(100), Div(F(100), Add(F(1), rs)))

\* lines 512-513, 519-520: RSI from the two smoothed averages
RsiOf(avg_gain, avg_loss) ==
    LET rs == IF avg_loss = 0 THEN PosInf ELSE Div(avg_gain, avg_loss)
    IN Sub(F(100), Div(F(100), Add(F(1), rs)))

RsiStep(avg_gain, avg_loss) ==
    [avg_gain |-> avg_gain, avg_loss |-> avg_loss, rsi |-> RsiOf(avg_gain, avg_loss)]

\* lines 516-521: Wilder's smoothing, one step for each further change
RECURSIVE RsiFrom(_, _, _, _, _)
RsiFrom(gains, losses, period, idx, acc) ==
    IF idx > Len(gains) THEN acc
    ELSE LET prev == acc[Len(acc)]
             avg_gain == Div(Add(Mul(prev.avg_gain, F(period - 1)), gains[idx]), F(period))
             avg_loss == Div(Add(Mul(prev.avg_loss, F(period - 1)), losses[idx]), F(period))
         IN RsiFrom(gains, losses, period, idx + 1, Append(acc, RsiStep(avg_gain, avg_loss)))

\* lines 508-521: the averages and the RSI of every emitted point
RsiSteps(values, period) ==
    LET gains == Gains(values)
        losses == Losses(values)
    IN RsiFrom(gains, losses, period, period + 1,
               <<RsiStep(Div(SumTo(gains, period), F(period)),
                         Div(SumTo(losses, period), F(period)))>>)

\* lines 497-523: _rsi_wilder(values, period, times)
RsiWilder(values, period, times) ==
    IF Len(values) <= period THEN Returned([value |-> <<>>])
    ELSE IF HasNone(values) THEN Raised
    ELSE LET steps == RsiSteps(Floats(values), period)
         IN Returned([value |->
               [k \in 1 .. Len(steps) |-> Point(times[period + k], steps[k].rsi)]])

\* lines 537, 538, 556: the periods of the fast, slow and signal averages
MACD_FAST == 12
MACD_SLOW == 26
MACD_SIGNAL == 9

\* a histogram that adds the signal to the MACD line
Hist_Sum(macd_val, signal_val) == Add(macd_val, signal_val)

\* line 567: hist_val = macd_val - signal_val
Hist(macd_val, signal_val) == Sub(macd_val, signal_val)

NoMacd == Returned([macd |-> <<>>, signal |-> <<>>, hist |-> <<>>])

\* lines 536-572: _macd(values, times)
Macd(values, times) ==
    IF Len(values) < MACD_FAST THEN NoMacd
    ELSE IF HasNone(values) THEN Raised
    ELSE LET ema12 == EmaValuesOnly(Floats(values), MACD_FAST)
             ema26 == EmaValuesOnly(Floats(values), MACD_SLOW)
             start12 == MACD_FAST - 1
             start26 == MACD_SLOW - 1
             start_idx == Max(start12, start26)
             offset12 == start_idx - start12
             offset26 == start_idx - start26
             common_length == Min(Len(ema12) - offset12, Len(ema26) - offset26)
         IN IF ema12 = <<>> \/ ema26 = <<>> THEN NoMacd
            ELSE IF common_length <= 0 THEN NoMacd
            ELSE LET macd_line_vals ==
                        [i \in 1 .. common_length |->
                            Sub(ema12[offset12 + i], ema26[offset26 + i])]
                     macd_times == [i \in 1 .. common_length |-> times[start_idx + i]]
                     signal_vals == EmaValuesOnly(macd_line_vals, MACD_SIGNAL)
                     signal_offset == MACD_SIGNAL - 1
                 IN IF signal_vals = <<>> THEN NoMacd
                    ELSE Returned(
                       [macd |-> [i \in 1 .. Len(signal_vals) |->
                                     Point(macd_times[i + signal_offset],
                                           macd_line_vals[i + signal_offset])],
                        signal |-> [i \in 1 .. Len(signal_vals) |->
                                     Point(macd_times[i + signal_offset], signal_vals[i])],
                        hist |-> [i \in 1 .. Len(signal_vals) |->
                                     Point(macd_times[i + signal_offset],
                                           Hist(macd_line_vals[i + signal_offset],
                                                signal_vals[i]))]])

\* sum((x - mean) ** 2 for x in window), from the left
RECURSIVE SumSquares(_, _, _)
SumSquares(window, mean, k) ==
    IF k = 0 THEN 0
    ELSE LET d == Sub(window[k], mean)
         IN Add(SumSquares(window, mean, k - 1), Mul(d, d))

\* lines 584-587: mean and standard deviation of the window that ends at idx
BollingerWindow(values, period, idx) ==
    LET window == SubSeq(values, idx - period + 1, idx)
        mean == Div(SumTo(window, period), F(period))
    IN [raises |-> \E k \in 1 .. period : SquareRaises(Sub(window[k], mean)),
        mean |-> mean,
        std_dev |-> Sqrt(Div(SumSquares(window, mean, period), F(period)))]

\* lines 575-598: _bollinger(values, period, std_multiplier, times)
Bollinger(values, period, std_multiplier, times) ==
    IF Len(values) < period
    THEN Returned([upper |-> <<>>, middle |-> <<>>, lower |-> <<>>])
    ELSE IF HasNone(values) THEN Raised
    ELSE LET n == Len(values) - period + 1
             w == [k \in 1 .. n |-> BollingerWindow(Floats(values), period, period - 1 + k)]
             band(k) == Mul(F(std_multiplier), w[k].std_dev)
         IN IF \E k \in 1 .. n : w[k].raises THEN Raised
            ELSE Returned(
               [upper |-> [k \in 1 .. n |->
                              Point(times[period - 1 + k], Add(w[k].mean, band(k)))],
                middle |-> [k \in 1 .. n |-> Point(times[period - 1 + k], w[k].mean)],
                lower |-> [k \in 1 .. n |->
                              Point(times[period - 1 + k], Sub(w[k].mean, band(k)))]])

\* the closes of a sequence of candles
Closes == {None, Some(0), Some(1), Some(F(1)), Some(FloatMax), Some(0 - FloatMax)}

\* the aligned times: the candle at index i has time TimeAt(i)
TimeAt(i) == 1700000 + 86 * i
Times(n) == [i \in 1 .. n |-> TimeAt(i)]

\* every sequence of closes of length 0 .. MaxLen
ShortValues == UNION { [1 .. n -> Closes] : n \in 0 .. MaxLen }

Periods == 1 .. MaxPeriod

\* the long inputs of _macd: a shape of closes at each length
MacdLengths ==
    { MACD_FAST - 1, MACD_FAST, MACD_SLOW - 1, MACD_SLOW,
      MACD_SLOW + MACD_SIGNAL - 2, MACD_SLOW + MACD_SIGNAL - 1,
      MACD_SLOW + MACD_SIGNAL, MACD_SLOW + MACD_SIGNAL + MaxLen }

Shapes == {"flat", "ramp", "saw", "swing", "spike", "null"}

ShapeValue(shape, i, n) ==
    CASE shape = "flat" -> Some(F(3))
      [] shape = "ramp" -> Some(F(i))
      [] shape = "saw" -> Some(F(10) + (i % 3) * 5)
      [] shape = "swing" -> IF i % 2 = 0 THEN Some(FloatMax) ELSE Some(0 - FloatMax)
      [] shape = "spike" -> IF i = n THEN Some(FloatMax) ELSE Some(F(1))
      [] OTHER -> IF i = n THEN None ELSE Some(F(1))

LongValues ==
    { [i \in 1 .. n |-> ShapeValue(shape, i, n)] : shape \in Shapes, n \in MacdLengths }

\* the calls of a run: the function and its arguments
TaCalls ==
    { [fn |-> fn, values |-> values, period |-> period, std_multiplier |-> 0,
       times |-> Times(Len(values))] :
        fn \in {"sma", "ema", "rsi"}, values \in ShortValues, period \in Periods }
    \cup { [fn |-> "bollinger", values |-> values, period |-> period,
            std_multiplier |-> m, times |-> Times(Len(values))] :
        values \in ShortValues, period \in Periods, m \in {1, 2} }
    \cup { [fn |-> "macd", values |-> values, period |-> 0, std_multiplier |-> 0,
            times |-> Times(Len(values))] :
        values \in LongValues \cup { v \in ShortValues : Len(v) = MaxLen } }

Call(fn, result) ==
    /\ taIn # None /\ taOut = None /\ taIn[1].fn = fn
    /\ taOut' = Some(result)
    /\ UNCHANGED <<taIn, normVars>>
    /\ UNCHANGED <<timeVars, rlVars, cacheVars, docVars, indVars, fileVars, dbVars, sideVars>>

CallSma == Call("sma", Sma(taIn[1].values, taIn[1].period, taIn[1].times))
CallEma == Call("ema", Ema(taIn[1].values, taIn[1].period, taIn[1].times))
CallRsi == Call("rsi", RsiWilder(taIn[1].values, taIn[1].period, taIn[1].times))
CallMacd == Call("macd", Macd(taIn[1].values, taIn[1].times))
CallBollinger ==
    Call("bollinger", Bollinger(taIn[1].values, taIn[1].period,
                                taIn[1].std_multiplier, taIn[1].times))

TaInit == taOut = None /\ taIn \in { Some(call) : call \in TaCalls }

TaIdle == taIn = None /\ taOut = None

---------------------------------------------------------------------------
(* Cached indicators over the document store: snapshots, history and
   indicator requests, one at a time *)

\* lines 414-433: the symbol the upstream names for the security id
SymbolOf(security_id) == IF security_id = 1 THEN "A" ELSE "B"

\* lines 200-206, 442-443: the rows of the symbol read from the store at the
\* clock value now, with the time of the read
StoreRead(f, security_id, now) ==
    [rows |-> ListOf(LoadHistory(f).payload.symbols, SymbolOf(security_id)),
     readAt |-> now]

\* the lists of names the requests of this section ask for, and the security
\* they ask about: the one whose symbol the feeds carry
StaleLists == {<<"macd">>, <<"bb20">>}
StaleIds == {1}

\* get_ta_indicators calling _get_cached_indicators (line 1056) at the clock
\* value of the request
StaleIndCall ==
    /\ indCalls < MaxCalls
    /\ indCalls' = indCalls + 1
    /\ \E security_id \in StaleIds, indicators \in StaleLists :
         IndReturnOf(security_id, indicators,
                     Some(HistoryPayload(security_id, StoreRead(fs, security_id, clock))))
    /\ UNCHANGED <<pureVars, dbVars, fileVars, timeVars, rlVars, docVars, upstream, cPc, cKey, cNow, cRet, cLastSet>>

\* get_ta_history calling _get_or_fetch_ta_history (line 1025)
StaleHistoryCall ==
    /\ \E security_id \in StaleIds :
         cache_store' = GetOrFetchTaHistory(cache_store, security_id, clock,
                           Some(HistoryPayload(security_id,
                                               StoreRead(fs, security_id, clock)))).store
    /\ UNCHANGED <<pureVars, dbVars, fileVars, timeVars, rlVars, docVars, indVars, cPc, cKey, cNow, cRet, cLastSet>>

StaleElapse ==
    /\ ElapseClock({TtlTicks - 1, TtlTicks})
    /\ UNCHANGED <<pureVars, dbVars, fileVars, rlVars, cacheVars, docVars, indVars>>

---------------------------------------------------------------------------
(* Route /api/ta/indicators: get_ta_indicators *)

MaxRequests == 2

\* request.args.get("securityId"): absent, or the text of the parameter
SecurityIdArgs == {None, Some("1"), Some("2"), Some("1.9"), Some("x")}

\* lines 78-84: int(float(str(value).replace(",", ""))), None for no value and
\* for a text float() rejects
SafeInt(value) ==
    IF value = None THEN None
    ELSE CASE value[1] = "1" -> Some(1)
           [] value[1] = "2" -> Some(2)
           [] value[1] = "1.9" -> Some(1)
           [] value[1] = "x" -> None

\* the texts between the commas of the indicators parameter
CsvItems == {"macd", " BB20 ", "foo", ""}

\* request.args.get("indicators"): absent, or the parameter as its comma-separated
\* items (a text without a comma is one item)
IndicatorArgs == {None} \cup { Some(q) : q \in UNION { [1 .. k -> CsvItems] : k \in 1 .. MaxIndLen } }

\* lines 1044-1045: item.strip() of the lower-cased text
ItemName(item) ==
    CASE item = "macd" -> "macd"
      [] item = " BB20 " -> "bb20"
      [] item = "foo" -> "foo"
      [] item = "" -> ""

\* lines 1044-1045: the non-empty stripped items, in the order given
Requested(arg) ==
    IF arg = None THEN <<>>
    ELSE SelectSeq([i \in 1 .. Len(arg[1]) |-> ItemName(arg[1][i])], LAMBDA n : n # "")

\* a check that lets every name through
Invalid_None(requested) == SelectSeq(requested, LAMBDA n : FALSE)

\* line 1046
Allowed == {"sma20", "ema50", "rsi14", "macd", "bb20"}

\* line 1048: the requested names outside allowed
Invalid(requested) == SelectSeq(requested, LAMBDA n : n \notin Allowed)

\* line 1053
DefaultIndicators == <<"sma20", "ema50", "rsi14", "macd", "bb20">>

\* lines 1034-1060: one request, from _enforce_rate_limit to the response
GetTaIndicators ==
    /\ reqCalls < MaxRequests
    /\ reqCalls' = reqCalls + 1
    /\ \E tr \in rlTraffic, sid \in SecurityIdArgs, arg \in IndicatorArgs,
          answers \in BOOLEAN :
         LET k == RateLimitKey("ta_indicators", tr[2])
             pre == DictGet(rate_limit_bucket, k)
             post == BucketAfter(pre, clock)
             out == OutcomeOf(pre, clock)
             security_id == SafeInt(sid)
             requested == Requested(arg)
             invalid == Invalid(requested)
             names == IF requested = <<>> THEN DefaultIndicators ELSE requested
             Answer(status, body) ==
                reqLast' = Some([securityId |-> sid, indicators |-> arg,
                                 requested |-> requested, status |-> status,
                                 body |-> body])
         IN /\ tr[1] = "ta_indicators"
            /\ rate_limit_bucket' = DictSet(rate_limit_bucket, k, post)
            /\ rlAdmitted' = [rlAdmitted EXCEPT ![k] =
                  IF WindowElapsed(pre, clock) THEN 1
                  ELSE IF out.admit THEN @ + 1 ELSE @]
            /\ rlLast' = Some([key |-> k, now |-> clock, pre |-> pre,
                               post |-> post, admit |-> out.admit,
                               retryAfter |-> out.retryAfter])
            /\ IF ~out.admit
               THEN /\ Answer(429, [retryAfter |-> out.retryAfter])
                    /\ UNCHANGED <<cache_store, indLast, indStored, indCalls>>
               ELSE IF security_id = None
               THEN /\ Answer(400, [error |-> "securityId must be an integer"])
                    /\ UNCHANGED <<cache_store, indLast, indStored, indCalls>>
               ELSE IF invalid # <<>>
               THEN /\ Answer(400, [error |-> "Unsupported indicators requested",
                                    invalid |-> invalid])
                    /\ UNCHANGED <<cache_store, indLast, indStored, indCalls>>
               ELSE /\ indCalls < MaxCalls
                    /\ indCalls' = indCalls + 1
                    /\ IndReturn(security_id[1], names, answers)
                    /\ IF indLast'[1].result = None
                       THEN Answer(502, [error |-> "Unable to fetch TA indicators"])
                       ELSE Answer(200, indLast'[1].result[1])
    /\ UNCHANGED <<normVars, taVars, histVars, dbVars, fileVars, timeVars, docVars, upstream,
                   rlPc, rlKey, rlNow, rlTraffic, cPc, cKey, cNow, cRet, cLastSet>>

\* the lists a caller inside the program can hand to _get_cached_indicators
AnyNameLists == UNION { [1 .. k -> IndicatorNames \cup {"foo"}] : k \in 0 .. MaxIndLen }

\* a direct call of _get_cached_indicators, in a run without HTTP traffic
IndCallAny == rlTraffic = {} /\ IndCallFrom(AnyNameLists)

\* a bucket the requests of one window have filled to one below the limit
RLNearLimit ==
    \E tr \in rlTraffic :
       LET k == RateLimitKey(tr[1], tr[2]) IN
       /\ rate_limit_bucket = DictSet(EmptyDict, k,
             [window_start |-> 0, count |-> RATE_LIMIT_MAX_REQUESTS - 1])
       /\ rlAdmitted = [x \in RLKeys |-> IF x = k THEN RATE_LIMIT_MAX_REQUESTS - 1 ELSE 0]
       /\ rlPc = [t \in RLThreads |-> "idle"]
       /\ rlKey = [t \in RLThreads |-> ""]
       /\ rlNow = [t \in RLThreads |-> 0]
       /\ rlLast = None

ReqInit == reqCalls = 0 /\ reqLast = None

ReqIdle == ReqInit

PureIdle == NormIdle /\ TaIdle /\ ReqIdle /\ HistIdle

---------------------------------------------------------------------------
(* Rate limiter: properties *)

\* C1: within one window of a key (no reset in between) a request is admitted
\* exactly when its post-increment count is <= RATE_LIMIT_MAX_REQUESTS, so the
\* number of requests admitted in the window is min(count, max) and never
\* exceeds RATE_LIMIT_MAX_REQUESTS.
C1_AdmissionBound ==
    /\ \A k \in DOMAIN rate_limit_bucket :
          /\ rlAdmitted[k] <= RATE_LIMIT_MAX_REQUESTS
          /\ rlAdmitted[k] = Min(rate_limit_bucket[k].count, RATE_LIMIT_MAX_REQUESTS)
    /\ rlLast # None =>
          LET r == rlLast[1] IN
            (r.pre # None /\ r.post.window_start = r.pre[1].window_start
                /\ r.post.count = r.pre[1].count + 1)
               => (r.admit <=> r.post.count <= RATE_LIMIT_MAX_REQUESTS)

\* a key with RATE_LIMIT_MAX_REQUESTS requests admitted in its window and one more rejected
C1_Witness ==
    /\ rlLast # None
    /\ ~rlLast[1].admit
    /\ rlAdmitted[rlLast[1].key] = RATE_LIMIT_MAX_REQUESTS
    /\ rlLast[1].post.count = RATE_LIMIT_MAX_REQUESTS + 1

\* C2: a request that finds no bucket, or a bucket with
\* now - windowStart >= windowSeconds, leaves the bucket {windowStart: now, count: 1}
\* and is admitted, however many requests the previous window rejected; a rejection
\* adds one to count and leaves windowStart alone.
C2_WindowReset ==
    rlLast # None =>
       LET r == rlLast[1] IN
         /\ (\/ r.pre = None
             \/ r.now - r.pre[1].window_start
                   >= RATE_LIMIT_WINDOW_SECONDS * TicksPerSecond)
               => /\ r.post = [window_start |-> r.now, count |-> 1]
                  /\ r.admit
         /\ ~r.admit
               => /\ r.pre # None
                  /\ r.post.window_start = r.pre[1].window_start
                  /\ r.post.count = r.pre[1].count + 1
         /\ rate_limit_bucket[r.key] = r.post

\* a window that rejected requests is reset by a request arriving exactly
\* windowSeconds after it began
C2_Witness ==
    /\ rlLast # None
    /\ rlLast[1].pre # None
    /\ rlLast[1].pre[1].count > RATE_LIMIT_MAX_REQUESTS
    /\ rlLast[1].now - rlLast[1].pre[1].window_start
          = RATE_LIMIT_WINDOW_SECONDS * TicksPerSecond
    /\ rlLast[1].admit
    /\ rlLast[1].post.count = 1

\* C3: every rejection carries
\* retryAfter = max(1, floor(windowSeconds - (now - windowStart))), and that value
\* lies in [1, windowSeconds], in every interleaving.
C3_RetryAfterInWindow ==
    (rlLast # None /\ ~rlLast[1].admit) =>
       LET r == rlLast[1]
           left == RATE_LIMIT_WINDOW_SECONDS * TicksPerSecond
                      - (r.now - r.pre[1].window_start)
       IN /\ r.retryAfter = Max(1, PyInt(left, TicksPerSecond))
          /\ r.retryAfter >= 1
          /\ r.retryAfter <= RATE_LIMIT_WINDOW_SECONDS

\* the (route, client) pair a source of requests stands for
SourceOf(tr) == <<tr[1], ClientIp(tr[2])>>

\* C25: requests of different (route, client) pairs have different keys, and a
\* request handled by _enforce_rate_limit changes the bucket of its own key
\* only: every other bucket, present or absent, is the same after the request,
\* and the request is rejected only when its own bucket already counts
\* RATE_LIMIT_MAX_REQUESTS requests of the current window.
C25_KeyIsolation ==
    /\ [](\A a \in rlTraffic, b \in rlTraffic :
             SourceOf(a) # SourceOf(b) => RateLimitKey(a[1], a[2]) # RateLimitKey(b[1], b[2]))
    /\ [][\A t \in RLThreads :
             (rlPc[t] = "waiting" /\ rlPc'[t] = "idle") =>
                /\ \A k \in (DOMAIN rate_limit_bucket \cup DOMAIN rate_limit_bucket')
                             \ {rlKey[t]} :
                      DictGet(rate_limit_bucket', k) = DictGet(rate_limit_bucket, k)
                /\ rlLast'[1].key = rlKey[t]
                /\ ~rlLast'[1].admit =>
                      /\ rlKey[t] \in DOMAIN rate_limit_bucket
                      /\ rate_limit_bucket[rlKey[t]].count >= RATE_LIMIT_MAX_REQUESTS]_vars

\* a request was rejected under one key while the bucket of the other key,
\* below the limit, stayed as it was
C25_Witness ==
    /\ rlLast # None /\ ~rlLast[1].admit
    /\ \E k \in DOMAIN rate_limit_bucket :
          /\ k # rlLast[1].key
          /\ rate_limit_bucket[k].count < RATE_LIMIT_MAX_REQUESTS
          /\ rate_limit_bucket[k].window_start # rate_limit_bucket[rlLast[1].key].window_start

---------------------------------------------------------------------------
(* Cache: properties *)

CacheGetReturns(t) == cPc[t] = "waiting" /\ cPc'[t] = "idle"

\* C4: after _cache_set(key, v) at time T with no later set of the key, a
\* _cache_get(key) that read the clock at t returns v when
\* t - T < CACHE_TTL_SECONDS and reports a miss when t - T >= CACHE_TTL_SECONDS.
C4_CacheTtl ==
    [][ \A t \in CThreads :
          (CacheGetReturns(t) /\ cKey[t] \in DOMAIN cLastSet) =>
             LET set == cLastSet[cKey[t]] IN
               IF cNow[t] - set.ts < CACHE_TTL_SECONDS * TicksPerSecond
               THEN cRet'[t].value = Some(set.value)
               ELSE cRet'[t].value = None ]_vars

\* C5: in every interleaving, a _cache_get that finds an entry expired by the
\* clock value it read removes that entry and no other in the step that reads it
\* and reports a miss; a value is returned only from an entry not expired by that
\* clock value, unchanged; and an entry that is fresh by the wall clock (one a
\* concurrent _cache_set has just installed) is never removed.
C5_AtomicEviction ==
    [][ \A t \in CThreads :
          CacheGetReturns(t) =>
             LET k == cKey[t]
                 found == k \in DOMAIN cache_store
                 ttl == CACHE_TTL_SECONDS * TicksPerSecond
             IN /\ (found /\ cNow[t] - cache_store[k].ts >= ttl)
                      => /\ cache_store' = DictPop(cache_store, k)
                         /\ cRet'[t].value = None
                /\ cRet'[t].value # None
                      => /\ found
                         /\ cNow[t] - cache_store[k].ts < ttl
                         /\ cRet'[t].value = Some(cache_store[k].value)
                /\ cache_store' # cache_store
                      => /\ found
                         /\ cNow[t] - cache_store[k].ts >= ttl
                         /\ clock - cache_store[k].ts >= ttl
                         /\ cache_store' = DictPop(cache_store, k) ]_vars

\* a _cache_get has evicted the expired entry of its key while the other key's
\* entry stayed in the store
C5_Witness ==
    \E t \in CThreads, k \in CacheKeys :
       /\ cPc[t] = "idle"
       /\ cRet[t].via = "expired"
       /\ k \in DOMAIN cLastSet
       /\ k \notin DOMAIN cache_store
       /\ DOMAIN cache_store # {}

---------------------------------------------------------------------------
(* Indicator cache: properties *)

\* C6: a call of _get_cached_indicators for a security id and a list of names
\* uses the cache key of the last call that computed a result for the same id
\* and the same set of names, and when it comes less than the TTL after that
\* call it is a hit that returns the result stored then and computes nothing.
C6_KeyCanonical ==
    (indLast # None /\ indLast[1].prior # None) =>
       LET call == indLast[1]
           first == call.prior[1]
       IN /\ call.key = first.key
          /\ call.at - first.at < CACHE_TTL_SECONDS * TicksPerSecond
                => /\ call.hit
                   /\ ~call.computed
                   /\ call.result = first.result

\* a call with two names repeated an earlier computing call of the same set
\* within the TTL, after the upstream prices changed, and was a hit
C6_Witness ==
    /\ indLast # None
    /\ indLast[1].prior # None
    /\ Cardinality(indLast[1].names) = 2
    /\ indLast[1].hit
    /\ indLast[1].at > indLast[1].prior[1].at
    /\ indLast[1].result[1].series[CHOOSE n \in indLast[1].names : TRUE].from # upstream

---------------------------------------------------------------------------
(* Route /api/ta/indicators: properties *)

C21_RouteRejects ==
    reqLast # None =>
       LET r == reqLast[1] IN
       /\ (r.status \notin {429} /\ SafeInt(r.securityId) # None
              /\ ~(Range(r.requested) \subseteq Allowed))
            => /\ r.status = 400
               /\ Range(r.body.invalid) = Range(r.requested) \ Allowed
       /\ r.status = 200
            => /\ Range(r.requested) \subseteq Allowed
               /\ DOMAIN r.body.series =
                     IF r.requested = <<>> THEN Allowed ELSE Range(r.requested)

\* a request that asked for " BB20 " and "foo" was answered 400
C21_RouteWitness ==
    /\ reqLast # None
    /\ reqLast[1].requested = <<"bb20", "foo">>
    /\ reqLast[1].status = 400

---------------------------------------------------------------------------
(* Batch of stored rows: properties *)

\* the candles of the rows of the batch that the normalizer accepts, in the
\* order of the rows
AcceptedCandles(rows) ==
    LET results == [i \in 1 .. Len(rows) |-> NormalizeCandleRow(StoredRaw(rows[i]))]
        accepted == SelectSeq(results, LAMBDA r : r.res = "candle")
    IN [i \in 1 .. Len(accepted) |-> accepted[i].candle[1]]

\* q holds the elements of p, each as often as p
SameCandles(p, q) ==
    /\ Len(p) = Len(q)
    /\ \A c \in Range(p) \cup Range(q) :
          Cardinality({ i \in 1 .. Len(p) : p[i] = c })
             = Cardinality({ i \in 1 .. Len(q) : q[i] = c })

Ascending(candles) ==
    \A i \in 1 .. Len(candles) - 1 : TimeLeq(candles[i].time, candles[i + 1].time)

\* C23: _get_or_fetch_ta_history never raises on a batch of stored rows: it
\* returns exactly the candles of the rows that normalize, ascending by time,
\* whatever the other rows of the batch are.
C23_PerRowRecovery ==
    histOut # None =>
       /\ ~histOut[1].raised
       /\ SameCandles(AcceptedCandles(histIn[1].rows), histOut[1].candles)
       /\ Ascending(histOut[1].candles)

\* C23, for the calls that return: the candles returned are those of the rows
\* that normalize, ascending by time
C23_WhenReturned ==
    (histOut # None /\ ~histOut[1].raised) =>
       /\ SameCandles(AcceptedCandles(histIn[1].rows), histOut[1].candles)
       /\ Ascending(histOut[1].candles)

\* a batch of a row that is dropped and a row that is kept returned one candle
C23_SkipWitness ==
    /\ histOut # None /\ ~histOut[1].raised
    /\ Len(histIn[1].rows) = 2
    /\ NormalizeCandleRow(StoredRaw(histIn[1].rows[1])).res = "none"
    /\ Len(histOut[1].candles) = 1

---------------------------------------------------------------------------
(* Cached indicators over the document store: properties *)

\* the age, at the return of the last _get_cached_indicators call, of the store
\* read the series named n of its result was computed from
Staleness(n) == indLast[1].at - indLast[1].result[1].series[n].from.readAt

\* C24: every series of a result returned by _get_cached_indicators was
\* computed from rows read from the store less than 2 x CACHE_TTL_SECONDS before
\* the return, and a snapshot leaves the cache as it is.
C24_BoundedStaleness ==
    /\ [](indLast # None /\ indLast[1].result # None =>
             \A n \in DOMAIN indLast[1].result[1].series :
                /\ Staleness(n) >= 0
                /\ Staleness(n) < 2 * CACHE_TTL_SECONDS * TicksPerSecond)
    /\ [][fs' # fs => cache_store' = cache_store]_vars

\* a cache hit returned a series computed from a read more than one TTL old,
\* whose rows are no longer those of the store
C24_Witness ==
    /\ indLast # None /\ indLast[1].result # None /\ indLast[1].hit
    /\ \E n \in DOMAIN indLast[1].result[1].series :
          /\ Staleness(n) > CACHE_TTL_SECONDS * TicksPerSecond
          /\ indLast[1].result[1].series[n].from.rows
                # StoreRead(fs, indLast[1].security_id, clock).rows

---------------------------------------------------------------------------
(* Document backend, concurrent: properties *)

\* C10: a _load_ohlc_history running concurrently with ohlc_snapshot requests
\* never observes a partially written file at OHLC_HISTORY_PATH: whenever it
\* finds the file, the text it reads is a complete document that json.load
\* accepts.
C10_ReaderSeesComplete ==
    (fLoad # None /\ fLoad[1].found) => fLoad[1].complete

\* C11: when ohlc_snapshot requests run _save_ohlc_history concurrently, the
\* document an os.replace puts in place is exactly the complete payload of one
\* of the requests that are saving, never a mixture or a truncation.
C11_NoInterleavedWrites ==
    [][ \A w \in Writers :
          (fPc[w] = "replace" /\ fPc'[w] = "idle" /\ FsExists(fs, TempPath)) =>
             FsRead(fs', StorePath) \in
                { Serialize(fPayload[v][1]) : v \in { u \in Writers : fPayload[u] # None } }
      ]_vars

---------------------------------------------------------------------------
(* Document backend, snapshot frame: properties *)

\* the candles of the document persisted at the store path, as <<symbol, candle>>
StoredCandles(f) ==
    IF FsExists(f, StorePath) /\ ParseOk(FsRead(f, StorePath))
    THEN LET symbols == Parse(FsRead(f, StorePath)).symbols
         IN UNION { { <<x, symbols[x][i]>> : i \in 1 .. Len(symbols[x]) } :
                      x \in DOMAIN symbols }
    ELSE {}

\* C22: a snapshot changes or removes, in the persisted document, only the
\* candle dated today of a symbol present in its feed: every stored candle of
\* another date, and every candle of a symbol absent from the feed, is still
\* stored unchanged after the snapshot, also when the store could not be read.
C22_SnapshotFrame ==
    [][ (fs' # fs /\ docLast' # None) =>
          \A sc \in StoredCandles(fs) :
             (sc[2].date # today \/ sc[1] \notin docLast'[1].updated_symbols)
                => sc \in StoredCandles(fs') ]_vars

\* C22, for the snapshots that read the store: the same frame condition
C22_FrameWhenRead ==
    [][ (fs' # fs /\ docLast' # None /\ docLast'[1].opened) =>
          \A sc \in StoredCandles(fs) :
             (sc[2].date # today \/ sc[1] \notin docLast'[1].updated_symbols)
                => sc \in StoredCandles(fs') ]_vars

---------------------------------------------------------------------------
(* Relational backend: properties *)

\* C8 as claimed: executing the upsert batch a second time with identical rows
\* leaves daily_ohlc as the first execution left it, also when rows have a null
\* last_updated.
C8_BatchIdempotent ==
    (dbLast # None /\ dbLast[1].repeats) => ~dbLast[1].changed

\* C8: executing the upsert batch a second time with identical rows leaves
\* daily_ohlc as the first execution left it (the same rows, the same stored
\* values), provided every row carries a last_updated or both executions run on
\* the same current date.
C8_BatchIdempotentSameDay ==
    (/\ dbLast # None
     /\ dbLast[1].repeats
     /\ \/ dbLast[1].sameDay
        \/ \A i \in 1 .. Len(dbLast[1].batch) : dbLast[1].batch[i].last_updated # None)
       => ~dbLast[1].changed

\* a batch with a row without last_updated was executed a second time on the
\* same date, onto a table that holds rows
C8_Witness ==
    /\ dbLast # None
    /\ dbLast[1].repeats
    /\ dbLast[1].sameDay
    /\ \E i \in 1 .. Len(dbLast[1].batch) : dbLast[1].batch[i].last_updated = None
    /\ daily_ohlc # {}
    /\ dbTime > 0

OneRowPerKey ==
    \A r, q \in daily_ohlc : KeyOf(r) = KeyOf(q) => r = q

\* C9 as claimed: at most one row per (symbol, trading_date), and every column
\* of the row outside the keys equals the value of the row the most recent
\* upsert for the pair proposed.
C9_EveryNonKeyColumn ==
    /\ OneRowPerKey
    /\ \A r \in daily_ohlc :
          \A c \in Columns \ {"id", "symbol", "trading_date"} :
             r[c] = dbLatest[KeyOf(r)][c]

\* C9: after any sequence of upserts daily_ohlc holds at most one row per
\* (symbol, trading_date), and each of the thirteen columns the upsert carries
\* equals the value of the most recent upsert for the pair, a null included; id
\* and created_at keep the values of the insert.
C9_UpsertInvariant ==
    /\ OneRowPerKey
    /\ \A r \in daily_ohlc :
          /\ KeyOf(r) \in DOMAIN dbLatest
          /\ \A c \in UpdatedColumns : r[c] = dbLatest[KeyOf(r)][c]
          /\ r.id <= dbLatest[KeyOf(r)].id
          /\ r.created_at <= dbLatest[KeyOf(r)].created_at

\* an upsert at a later time has overwritten a stored price with null in a row
\* that keeps its id and created_at
C9_Witness ==
    /\ dbLast # None
    /\ dbLast[1].nulled
    /\ \E r \in daily_ohlc :
          /\ r.close_price = None
          /\ r.id < dbLatest[KeyOf(r)].id
          /\ r.created_at < dbLatest[KeyOf(r)].created_at

\* the rows of the table a request asked for
Matching(read) ==
    { r \in daily_ohlc :
        /\ r.symbol \in {"A", "B"}
        /\ r.symbol = Upper(read.symbol)
        /\ read.answer.from_date <= r.trading_date
        /\ r.trading_date <= read.answer.to_date }

\* C12: the result of get_ohlc_history holds only rows of the symbol with
\* from <= trading_date <= to, in ascending order of trading_date, and it is the
\* first min(N, number of matching rows) rows of that order, for a limit N >= 0.
C12_RangeRead ==
    (dbRead # None /\ dbRead[1].answer.status = 200) =>
       LET rows == dbRead[1].answer.rows
           matching == Matching(dbRead[1])
       IN /\ Len(rows) = Min(dbRead[1].answer.limit, Cardinality(matching))
          /\ \A i \in 1 .. Len(rows) :
                /\ \E r \in matching : rows[i] = ResponseRow(r)
                /\ Cardinality({ r \in matching : r.trading_date < rows[i].date }) = i - 1

\* a request with both ends on stored dates and limit 2 was answered with the
\* first two of three matching rows
C12_Witness ==
    /\ dbRead # None
    /\ dbRead[1].answer.status = 200
    /\ dbRead[1].answer.limit = 2
    /\ Cardinality(Matching(dbRead[1])) = 3
    /\ Len(dbRead[1].answer.rows) = 2
    /\ \E r \in Matching(dbRead[1]) : r.trading_date = dbRead[1].answer.from_date
    /\ \E r \in Matching(dbRead[1]) : r.trading_date = dbRead[1].answer.to_date

---------------------------------------------------------------------------
(* Candle normalizer: properties *)

PriceFields == {"open", "high", "low", "close"}

\* C13: _normalize_candle_row returns a candle or None; a returned candle has a
\* finite number as its open, high, low and close (a row whose value reads
\* "nan" or "inf" is dropped), and its volume is the parsed volume, or 0 when
\* the volume does not resolve.
C13_DropRule ==
    normOut # None =>
       LET out == normOut[1]
           volume == SafeFloat(normUsed[1].volume)
       IN /\ out.res \in {"candle", "none"}
          /\ out.res = "candle" =>
                /\ \A f \in PriceFields :
                      out.candle[1][f] # None /\ IsFinite(out.candle[1][f][1])
                /\ out.candle[1].volume =
                      IF volume = None \/ ~IsFinite(volume[1]) THEN Some(0) ELSE volume

\* the aliases of each field of the candle, in their order of priority
Aliases ==
    [time |-> <<"time", "timestamp", "date", "businessDate", "tradeDate">>,
     open |-> <<"open", "openPrice">>,
     high |-> <<"high", "highPrice">>,
     low |-> <<"low", "lowPrice">>,
     close |-> <<"close", "closePrice", "lastTradedPrice">>,
     volume |-> <<"volume", "totalTradeQuantity", "lastTradedVolume">>]

\* the value of the first alias that the row holds with a value other than null
RECURSIVE FirstPresent(_, _)
FirstPresent(raw, aliases) ==
    IF aliases = <<>> THEN RNone
    ELSE IF Head(aliases) \in DOMAIN raw /\ raw[Head(aliases)] # RNone
    THEN raw[Head(aliases)]
    ELSE FirstPresent(raw, Tail(aliases))

\* C14: for every field of the candle the normalizer uses the value of the
\* first alias, in the order of priority, that the raw row holds; an alias
\* that is absent or null gives way to the next one.
C14_FirstPresentWins ==
    normUsed # None =>
       \A f \in DOMAIN Aliases : normUsed[1][f] = FirstPresent(normIn[1], Aliases[f])

\* the float of a numeric input: an int or float, or a string float() accepts
NumericInput(value) ==
    IF value.kind \in {"num", "nan", "inf"} THEN Some(WideOfCell(value))
    ELSE IF value.kind = "str" THEN TimeFloat(Strip(value.text))
    ELSE None

\* C15: for a numeric input v, _parse_time_to_unix_seconds returns floor(v / 1000)
\* when v > 1e12, returns floor(v) when 1e9 < v <= 1e12, and returns None when
\* v <= 1e9.
C15_MagnitudeHeuristic ==
    (timeOut # None /\ NumericInput(timeIn[1]) # None) =>
       LET v == NumericInput(timeIn[1])[1]
           out == timeOut[1]
       IN IF GreaterThan(v, MillisThreshold)
          THEN /\ out.res = "value"
               /\ v.cls = "fin" =>
                     1000 * out.kilo + out.unit = v.kilo
          ELSE IF GreaterThan(v, SecondsThreshold)
          THEN out = TimeValue(v.kilo, v.unit)
          ELSE v.cls # "nan" => out = TimeNone

---------------------------------------------------------------------------
(* Indicator functions: properties *)

TaReturned == taOut # None /\ taOut[1].res = "ok"
TaReturnedBy(fn) == TaReturned /\ taIn[1].fn = fn

FiniteOrNull(value) == value = None \/ IsFinite(value[1])

\* C16: every value of every point that _sma, _ema, _rsi_wilder, _macd and
\* _bollinger return, and every numeric field of every candle the normalizer
\* returns, is a finite number or null: never NaN, never an infinity.
C16_NoNonFinite ==
    /\ TaReturned =>
          \A name \in DOMAIN taOut[1].series :
             \A i \in DOMAIN taOut[1].series[name] :
                FiniteOrNull(taOut[1].series[name][i].value)
    /\ (normOut # None /\ normOut[1].res = "candle") =>
          \A f \in {"open", "high", "low", "close", "volume"} :
             FiniteOrNull(normOut[1].candle[1][f])

\* an indicator returned a null value for closes that are all finite numbers:
\* a sum or a difference overflowed
C16_Witness ==
    /\ TaReturned /\ ~HasNone(taIn[1].values)
    /\ \E name \in DOMAIN taOut[1].series :
          \E i \in DOMAIN taOut[1].series[name] :
             taOut[1].series[name][i].value = None

\* the index of the code at which the output of a function starts
StartIndex(call) ==
    CASE call.fn = "rsi" -> call.period
      [] call.fn = "macd" -> (MACD_SLOW - 1) + (MACD_SIGNAL - 1)
      [] OTHER -> call.period - 1

\* C17: the times of the points an indicator function returns are the input
\* times from one start index s to the last, in order (s = period - 1 for SMA,
\* EMA and Bollinger, s = period for RSI); nothing is returned for an earlier
\* index, and the output is empty when the input has s values or fewer.
C17_TimesSuffix ==
    TaReturned =>
       LET call == taIn[1]
           n == Len(call.values)
           s == StartIndex(call)
       IN \A name \in DOMAIN taOut[1].series :
             LET points == taOut[1].series[name]
             IN /\ Len(points) = Max(0, n - s)
                /\ \A k \in 1 .. Len(points) : points[k].time = call.times[s + k]

\* _sma with period 2 on three closes returned two points, at the second and
\* the third time
C17_Witness ==
    /\ TaReturnedBy("sma") /\ taIn[1].period = 2 /\ Len(taIn[1].values) = 3
    /\ Len(taOut[1].series.value) = 2
    /\ taOut[1].series.value[1].time = taIn[1].times[2]

\* the mean of the window values[k .. k + period - 1], summed on its own
WindowMean(values, k, period) ==
    Div(SumTo(SubSeq(values, k, k + period - 1), period), F(period))

\* C18: for n >= period _sma returns n - period + 1 points and the value of
\* the k-th point is the arithmetic mean of values[k .. k + period - 1]: the
\* running sum equals the sum of the window at every step; for n < period it
\* returns no point.
C18_SmaRunningSum ==
    TaReturnedBy("sma") =>
       LET call == taIn[1]
           points == taOut[1].series.value
       IN /\ Len(points) = Max(0, Len(call.values) - call.period + 1)
          /\ \A k \in 1 .. Len(points) :
                points[k].value =
                   SafeJsonNumber(Some(WindowMean(Floats(call.values), k, call.period)))

\* C19: every value _rsi_wilder returns lies in [0, 100]; it is 100 where the
\* smoothed average loss is 0, and 0 where the smoothed average gain is 0 and
\* the average loss is positive.
C19_RsiRange ==
    TaReturnedBy("rsi") =>
       LET points == taOut[1].series.value
       IN \A k \in 1 .. Len(points) :
             LET step == RsiSteps(Floats(taIn[1].values), taIn[1].period)[k]
                 value == points[k].value
             IN /\ value # None => (value[1] >= 0 /\ value[1] <= F(100))
                /\ step.avg_loss = 0 => value = Some(F(100))
                /\ (step.avg_gain = 0 /\ step.avg_loss > 0 /\ step.avg_loss # NaN) =>
                      value = Some(0)

\* RSI returned 0 at a point with no average gain and 100 at a point with no
\* average loss
C19_Witness ==
    /\ TaReturnedBy("rsi") /\ Len(taOut[1].series.value) = 2
    /\ taOut[1].series.value[1].value = Some(0)
    /\ taOut[1].series.value[2].value = Some(F(100))

\* C20: the macd, signal and hist sequences that _macd returns have the same
\* length and the same time at each position, hist is macd - signal at each
\* position, and the three are empty when the input is too short for the
\* EMA(12), the EMA(26) or the signal EMA(9).
C20_MacdAligned ==
    TaReturnedBy("macd") =>
       LET out == taOut[1].series
       IN /\ Len(out.signal) = Len(out.macd) /\ Len(out.hist) = Len(out.macd)
          /\ \A i \in 1 .. Len(out.macd) :
                /\ out.signal[i].time = out.macd[i].time
                /\ out.hist[i].time = out.macd[i].time
                /\ (out.macd[i].value # None /\ out.signal[i].value # None) =>
                      out.hist[i].value =
                         SafeJsonNumber(Some(Sub(out.macd[i].value[1], out.signal[i].value[1])))
          /\ Len(taIn[1].values) < MACD_SLOW + MACD_SIGNAL - 1 => out.macd = <<>>

\* _macd returned two or more points, one with a histogram other than 0
C20_Witness ==
    /\ TaReturnedBy("macd") /\ Len(taOut[1].series.macd) >= 2
    /\ \E i \in 1 .. Len(taOut[1].series.hist) :
          /\ taOut[1].series.hist[i].value # None
          /\ taOut[1].series.hist[i].value # Some(0)

---------------------------------------------------------------------------
(* Document backend: properties *)

StoredSymbols(f) ==
    IF FsExists(f, StorePath) THEN Parse(FsRead(f, StorePath)).symbols ELSE EmptyDict

C7_Stored ==
    FsExists(fs, StorePath) =>
       /\ ParseOk(FsRead(fs, StorePath))
       /\ \A symbols \in {StoredSymbols(fs)} :
             \A x \in DOMAIN symbols :
                \A i, j \in 1 .. Len(symbols[x]) :
                   i < j => symbols[x][i].date < symbols[x][j].date

C7_Step ==
    fs' # fs =>
       \A before \in {StoredSymbols(fs)}, after \in {StoredSymbols(fs')} :
          /\ DOMAIN before \subseteq DOMAIN after
          /\ \A x \in DOMAIN after :
                \A old \in {ListOf(before, x)}, new \in {after[x]} :
                   \/ new = old
                   \/ /\ DatesOf(new) = DatesOf(old) \cup {today}
                      /\ Len(new) = IF today \in DatesOf(old)
                                    THEN Len(old) ELSE Len(old) + 1
                      /\ \A i \in 1 .. Len(old) :
                            old[i].date # today
                               => \E j \in 1 .. Len(new) : new[j] = old[i]

\* C7: from an empty store, after any sequence of snapshots on any days, every
\* symbol's list in the stored document holds at most one candle per date and is
\* sorted ascending by date; a snapshot replaces the candle dated today when
\* there is one and appends otherwise, and keeps the candles of other dates.
C7_SeriesInvariant == []C7_Stored /\ [][C7_Step]_vars

\* a snapshot has replaced today's candle of a symbol whose stored list holds
\* a candle of an earlier and one of a later date, and appended to another symbol
C7_Witness ==
    /\ docLast # None
    /\ \E x \in docLast[1].replaced :
          /\ Len(StoredSymbols(fs)[x]) = 3
          /\ StoredSymbols(fs)[x][2].date = today
    /\ docLast[1].appended # {}

---------------------------------------------------------------------------
TimeInit == clock = 0 /\ elapses = 0

CacheIdle == CacheInit

Init == PureIdle /\ TimeInit /\ RLInit /\ RLSingleSource /\ CacheIdle /\ DocIdle /\ IndIdle /\ FileIdle /\ DbIdle

Next ==
    \/ \E t \in RLThreads : RLReadClock(t)
    \/ \E t \in RLThreads : RLEnforce(t)
    \/ RLElapse

Spec == Init /\ [][Next]_vars

InitCache == PureIdle /\ TimeInit /\ RLIdle /\ CacheInit /\ DocIdle /\ IndIdle /\ FileIdle /\ DbIdle

NextCache ==
    \/ \E t \in CThreads : CacheGetReadClock(t)
    \/ \E t \in CThreads : CacheGetLocked(t)
    \/ CacheSet
    \/ CacheElapse

SpecCache == InitCache /\ [][NextCache]_vars

InitDoc == PureIdle /\ TimeInit /\ RLIdle /\ CacheIdle /\ DocInit /\ feedMode = "any" /\ IndIdle /\ FileIdle /\ DbIdle

NextDoc ==
    \/ Snapshot
    \/ NewDay

SpecDoc == InitDoc /\ [][NextDoc]_vars

\* the sequence of snapshots, with reads of the store that may raise
NextDocFault ==
    \/ SnapshotAnyRead
    \/ NewDay

SpecDocFault == InitDoc /\ [][NextDocFault]_vars

InitInd == PureIdle /\ TimeInit /\ RLIdle /\ CacheIdle /\ DocIdle /\ IndInit /\ FileIdle /\ DbIdle

NextInd ==
    \/ IndCall
    \/ UpstreamChange
    \/ IndElapse

SpecInd == InitInd /\ [][NextInd]_vars

InitFile ==
    /\ PureIdle /\ TimeInit /\ RLIdle /\ CacheIdle /\ IndIdle /\ DbIdle /\ FileInit
    /\ fs = EmptyFs /\ today = 1 /\ docLast = None /\ feedMode = "few"

NextFile ==
    \/ \E w \in Writers : WEnsureCheck(w)
    \/ \E w \in Writers : WEnsureOpen(w)
    \/ \E w \in Writers : WEnsureWrite(w)
    \/ \E w \in Writers : WLoad(w)
    \/ \E w \in Writers : WTmpOpen(w)
    \/ \E w \in Writers : WTmpWrite(w)
    \/ \E w \in Writers : WReplace(w)
    \/ ReaderLoad

SpecFile == InitFile /\ [][NextFile]_vars

InitDb == PureIdle /\ TimeInit /\ RLIdle /\ CacheIdle /\ DocIdle /\ IndIdle /\ FileIdle /\ DbInit

NextDb ==
    \/ RefreshDailyOhlc
    \/ DbElapse

SpecDb == InitDb /\ [][NextDb]_vars

\* the requests of one instant, which may be any
InitRead ==
    /\ PureIdle /\ TimeInit /\ RLIdle /\ CacheIdle /\ DocIdle /\ IndIdle /\ FileIdle
    /\ daily_ohlc = {} /\ idSeq = 0 /\ dbTime \in 0 .. MaxDbTime
    /\ dbLatest = EmptyDict /\ dbLast = None /\ dbRead = None

NextRead ==
    \/ RefreshForRange
    \/ GetOhlcHistory

SpecRead == InitRead /\ [][NextRead]_vars

InitNorm ==
    /\ TimeInit /\ RLIdle /\ CacheIdle /\ DocIdle /\ IndIdle /\ FileIdle /\ DbIdle
    /\ NormInit /\ TaIdle /\ ReqIdle /\ HistIdle

NextNorm ==
    \/ ParseTime
    \/ NormalizeRow

SpecNorm == InitNorm /\ [][NextNorm]_vars

\* a run has one input: a call of an indicator function or a raw row
InitTa ==
    /\ TimeInit /\ RLIdle /\ CacheIdle /\ DocIdle /\ IndIdle /\ FileIdle /\ DbIdle
    /\ ReqIdle /\ HistIdle
    /\ \/ TaInit /\ NormIdle
       \/ TaIdle /\ NormInit /\ timeIn = None

NextTa ==
    \/ CallSma
    \/ CallEma
    \/ CallRsi
    \/ CallMacd
    \/ CallBollinger
    \/ NormalizeRow

SpecTa == InitTa /\ [][NextTa]_vars

\* a run is either the HTTP traffic of one client, starting with no bucket or
\* with a nearly full one, or direct calls of _get_cached_indicators
InitReq ==
    /\ NormIdle /\ TaIdle /\ ReqInit /\ HistIdle
    /\ TimeInit /\ CacheIdle /\ DocIdle /\ IndInit /\ FileIdle /\ DbIdle
    /\ \/ RLIdle
       \/ RLSingleSource /\ (RLInit \/ RLNearLimit)

NextReq ==
    \/ GetTaIndicators
    \/ IndCallAny

SpecReq == InitReq /\ [][NextReq]_vars

\* a run has one batch of stored rows
InitHist ==
    /\ NormIdle /\ TaIdle /\ ReqIdle /\ HistInit
    /\ TimeInit /\ RLIdle /\ CacheIdle /\ DocIdle /\ IndIdle /\ FileIdle /\ DbIdle

NextHist == FetchTaHistory

SpecHist == InitHist /\ [][NextHist]_vars

\* requests of two sources, in a run that starts in a window or at its end
InitKeys ==
    /\ PureIdle /\ CacheIdle /\ DocIdle /\ IndIdle /\ FileIdle /\ DbIdle
    /\ elapses = 0 /\ clock \in {0, WindowTicks}
    /\ RLSeveralSources

NextKeys ==
    \/ \E t \in RLThreads : RLReadClock(t)
    \/ \E t \in RLThreads : RLEnforce(t)

SpecKeys == InitKeys /\ [][NextKeys]_vars

InitStale ==
    /\ PureIdle /\ TimeInit /\ RLIdle /\ CacheIdle /\ IndInit /\ FileIdle /\ DbIdle
    /\ fs = EmptyFs /\ today = 1 /\ docLast = None /\ feedMode = "few"

NextStale ==
    \/ Snapshot
    \/ StaleHistoryCall
    \/ StaleIndCall
    \/ StaleElapse

SpecStale == InitStale /\ [][NextStale]_vars

====
